---- MODULE Spec2Model ----
(***************************************************************************)
(* A model of graphrag-neo4j's visualisation engine                        *)
(* (src/graphragdiy/visualization/graph_3d_visualizer.py): the source      *)
(* adapter, the cleaning of the edge table, the graph model, truncation,   *)
(* the seeded layout, the style assignment and the export.                 *)
(*                                                                         *)
(* An edge table (a pandas DataFrame) is a record                          *)
(*   [columns : sequence of header strings, rows : sequence of rows],      *)
(* a row being a function from the headers to cells.  A cell is a tagged   *)
(* value [k, v]: k = "null" (NaN / None), "str" or "int", v its printed    *)
(* form, so that str(1) and "1" are different cells with equal v.          *)
(***************************************************************************)
EXTENDS Integers, Sequences, FiniteSets, TLC

VARIABLES
    pc,        \* position of the running method (create_3d/2d_visualization)
    dim,       \* 3: create_3d_visualization runs, 2: create_2d_visualization
    limit,     \* the caller's node limit
    delivered, \* the table the data source holds for this run
    df,        \* the edge table the method holds
    G,         \* the graph the method holds
    pos,       \* the layout: node -> coordinates
    scene,     \* the traces handed to the figure
    result,    \* the method's return value
    artifact,  \* the file at the output path
    console,   \* the lines printed so far
    hashSeed,  \* the interpreter's string-hash seed (PYTHONHASHSEED)
    first,     \* the outcome of the first finished run, for comparing runs
    files,     \* graphrag mode: path -> what reading the file there gives
    hex_color, \* _adjust_color: the color passed in
    factor,    \* _adjust_color: the factor passed in, in tenths
    adjusted,  \* _adjust_color: the color returned
    step,      \* graphrag_mode: the position of the coroutine
    events,    \* graphrag_mode: what it has run and printed, in order
    inputs,    \* graphrag_mode: the lines read by input(), in order
    driver,    \* Neo4jConnector.driver: "none", "open" or "closed"
    default_index_manager, \* the mode of the shared IndexManager, or "None"
    default_kg_builder,    \* from_pdf of the shared builder, or "None"
    constructed,     \* how many shared managers and builders were constructed
    prompt_template, \* the prompt template of each of the two GraphRAG objects
    call       \* the last call on these components that has returned or raised

\* the variables of a visualization run
runVars == <<pc, dim, limit, delivered, df, G, pos, scene, result, artifact,
             console, hashSeed, first, files>>

\* the variables of the other components
appVars == <<hex_color, factor, adjusted, step, events, inputs, driver,
             default_index_manager, default_kg_builder, constructed,
             prompt_template, call>>

vars == <<runVars, appVars>>

\* the other components before anything is called
AppIdle ==
    /\ hex_color = <<>>
    /\ factor = 0
    /\ adjusted = <<>>
    /\ step = "idle"
    /\ events = <<>>
    /\ inputs = <<>>
    /\ driver = "none"
    /\ default_index_manager = "None"
    /\ default_kg_builder = "None"
    /\ constructed = [index_manager |-> 0, kg_builder |-> 0]
    /\ prompt_template = [vector_rag |-> "None", vector_cypher_rag |-> "None"]
    /\ call = [op |-> "none"]

(***************************************************************************)
(* Bounds of the model                                                     *)
(***************************************************************************)
MaxRows == 2          \* rows of a delivered table in the cleaning runs

(***************************************************************************)
(* Cells and tables                                                        *)
(***************************************************************************)
Null == [k |-> "null", v |-> ""]
Str(s) == [k |-> "str", v |-> s]
Num(s) == [k |-> "int", v |-> s]

IsNull(c) == c.k = "null"

\* pandas astype(str) on one cell: the printed form, of type str
AsTypeStr(c) == [k |-> "str", v |-> c.v]

EmptyFrame == [columns |-> <<>>, rows |-> <<>>]

\* DataFrame.empty: an axis of length 0
IsEmpty(d) == Len(d.rows) = 0 \/ Len(d.columns) = 0

Range(s) == {s[i] : i \in DOMAIN s}

SeqsUpTo(S, n) == UNION {[1..m -> S] : m \in 0..n}

RECURSIVE DropDuplicatesLast(_)
\* the bug of keeping the last of equal (source, target) rows
DropDuplicatesLast(rows) ==
    IF rows = <<>> THEN <<>>
    ELSE LET r == rows[1]
             rest == Tail(rows)
         IN IF \E j \in DOMAIN rest :
                   rest[j].source = r.source /\ rest[j].target = r.target
            THEN DropDuplicatesLast(rest)
            ELSE <<r>> \o DropDuplicatesLast(rest)

\* the bug of comparing the rows by their target alone
DropDuplicatesByTarget(rows) ==
    LET kept == {i \in DOMAIN rows :
                    \A j \in 1..(i - 1) : rows[j].target # rows[i].target}
        Pick[i \in 0..Len(rows)] ==
            IF i = 0 THEN <<>>
            ELSE IF i \in kept THEN Append(Pick[i - 1], rows[i]) ELSE Pick[i - 1]
    IN Pick[Len(rows)]

RECURSIVE DropDuplicatesFrom(_, _)
DropDuplicatesFrom(rows, seen) ==
    IF rows = <<>> THEN <<>>
    ELSE LET r == rows[1]
             key == <<r.source, r.target>>
         IN IF key \in seen
            THEN DropDuplicatesFrom(Tail(rows), seen)
            ELSE <<r>> \o DropDuplicatesFrom(Tail(rows), seen \cup {key})

\* DataFrame.drop_duplicates(subset=['source','target']), keep='first'
DropDuplicates(rows) == DropDuplicatesFrom(rows, {})

\* DataFrame.dropna(subset=['source','target'])
DropNa(rows) ==
    SelectSeq(rows, LAMBDA r : ~IsNull(r.source) /\ ~IsNull(r.target))

\* df['source'].astype(str), df['target'].astype(str)
CoerceEndpoints(rows) ==
    [i \in DOMAIN rows |->
        [rows[i] EXCEPT !.source = AsTypeStr(@), !.target = AsTypeStr(@)]]

\* the bug of removing duplicates before the endpoints are coerced
CleanDataframeDedupFirst(d) ==
    IF IsEmpty(d) THEN d
    ELSE [d EXCEPT !.rows = CoerceEndpoints(DropDuplicates(DropNa(d.rows)))]

\* Graph3DVisualizer._clean_dataframe
CleanDataframe(d) ==
    IF IsEmpty(d) THEN d
    ELSE [d EXCEPT !.rows = DropDuplicates(CoerceEndpoints(DropNa(d.rows)))]

(***************************************************************************)
(* The graph model: a networkx DiGraph.  nodes is the node dictionary in   *)
(* insertion order, edges the edges in order of first insertion, each with *)
(* its attribute dictionary (a function from attribute names to cells).    *)
(* No node ever gets an attribute: add_edge creates bare nodes.            *)
(***************************************************************************)
EmptyGraph == [nodes |-> <<>>, edges |-> <<>>]

AppendNew(s, x) == IF x \in Range(s) THEN s ELSE Append(s, x)

\* the bug of replacing the attribute dictionary of an edge written again
DictReplace(old, new) == new

\* dict.update: the new keys are added, the common ones overwritten
DictUpdate(old, new) ==
    [key \in (DOMAIN old) \cup (DOMAIN new) |->
        IF key \in DOMAIN new THEN new[key] ELSE old[key]]

\* the attributes of a row: every column but source and target
RowAttributes(row) ==
    [key \in (DOMAIN row) \ {"source", "target"} |-> row[key]]

\* DiGraph.add_edge(u, v, **attributes)
AddEdge(g, u, v, attributes) ==
    LET ns == AppendNew(AppendNew(g.nodes, u), v)
        at == {i \in DOMAIN g.edges : g.edges[i].u = u /\ g.edges[i].v = v}
    IN IF at = {}
       THEN [nodes |-> ns,
             edges |-> Append(g.edges, [u |-> u, v |-> v, data |-> attributes])]
       ELSE [nodes |-> ns,
             edges |-> [i \in DOMAIN g.edges |->
                          IF i \in at
                          THEN [g.edges[i] EXCEPT
                                  !.data = DictUpdate(@, attributes)]
                          ELSE g.edges[i]]]

RECURSIVE AddRows(_, _)
AddRows(g, rows) ==
    IF rows = <<>> THEN g
    ELSE AddRows(AddEdge(g, rows[1].source, rows[1].target,
                         RowAttributes(rows[1])),
                 Tail(rows))

\* Graph3DVisualizer._create_knowledge_graph
CreateKnowledgeGraph(d) == AddRows(EmptyGraph, d.rows)

NumberOfNodes(g) == Len(g.nodes)

RECURSIVE Flatten(_)
Flatten(ss) == IF ss = <<>> THEN <<>> ELSE ss[1] \o Flatten(Tail(ss))

\* the bug of leaving the self-loops out of the iteration
EdgesWithoutLoops(g) == SelectSeq(g.edges, LAMBDA e : e.u # e.v)

\* G.edges(data=True): by source in node order, then in adjacency order
EdgesOf(g) ==
    Flatten([i \in DOMAIN g.nodes |->
               SelectSeq(g.edges, LAMBDA e : e.u = g.nodes[i])])

Min(a, b) == IF a < b THEN a ELSE b
Max(a, b) == IF a > b THEN a ELSE b

\* list(G.nodes())[:limit] for a limit >= 0
Prefix(s, n) == SubSeq(s, 1, Min(n, Len(s)))

\* G.subgraph(nodes).copy(): the induced subgraph, in G's iteration order
Subgraph(g, keep) ==
    [nodes |-> SelectSeq(g.nodes, LAMBDA n : n \in keep),
     edges |-> SelectSeq(EdgesOf(g), LAMBDA e : e.u \in keep /\ e.v \in keep)]

\* the bug of keeping every edge that touches a retained node
TruncateLoose(g, lim) ==
    IF NumberOfNodes(g) > lim
    THEN LET keep == Range(Prefix(g.nodes, lim))
         IN [nodes |-> Prefix(g.nodes, lim),
             edges |-> SelectSeq(EdgesOf(g),
                                 LAMBDA e : e.u \in keep \/ e.v \in keep)]
    ELSE g

\* create_3d_visualization / create_2d_visualization, "限制节点数量"
Truncate(g, lim) ==
    IF NumberOfNodes(g) > lim
    THEN Subgraph(g, Range(Prefix(g.nodes, lim)))
    ELSE g

(***************************************************************************)
(* The layout: nx.spring_layout(G, dim, k, iterations, seed=42), the       *)
(* Fruchterman-Reingold simulation, in fixed-point arithmetic with the     *)
(* unit 1/100.  The initial positions are the rows of the seeded stream    *)
(* RandomState(42).rand(n, dim): row i belongs to the i-th node of G.      *)
(***************************************************************************)
\* RandomState(42).rand, in hundredths
SeededStream ==
    <<37, 95, 73, 60, 16, 16,  6, 87, 60, 71,  2, 97, 83, 21, 18,
      18, 30, 52, 43, 29, 61, 14, 29, 37, 46, 79, 20, 51, 59,  5,
      61, 17,  7, 95, 97, 81>>

\* a function on 1..n as a sequence value
Vec(f, n) == SubSeq(f, 1, n)

StreamAt(i) == SeededStream[((i - 1) % Len(SeededStream)) + 1]

\* seed.rand(nnodes, dim): filled row by row
InitialPositions(n, d) ==
    Vec([i \in 1..n |-> Vec([c \in 1..d |-> StreamAt((i - 1) * d + c)], d)], n)

RECURSIVE SqrtIter(_, _)
SqrtIter(x, r) ==
    LET r2 == (r + (x \div r)) \div 2
    IN IF r2 >= r THEN r ELSE SqrtIter(x, r2)

\* the integer square root
ISqrt(x) == IF x <= 0 THEN 0 ELSE SqrtIter(x, x)

RECURSIVE SumOver(_, _, _)
\* f[lo] + ... + f[hi]
SumOver(f, lo, hi) == IF lo > hi THEN 0 ELSE f[lo] + SumOver(f, lo + 1, hi)

RECURSIVE MaxOver(_, _, _)
MaxOver(f, lo, hi) ==
    IF lo = hi THEN f[lo] ELSE Max(f[lo], MaxOver(f, lo + 1, hi))

RECURSIVE MinOver(_, _, _)
MinOver(f, lo, hi) ==
    IF lo = hi THEN f[lo] ELSE Min(f[lo], MinOver(f, lo + 1, hi))

Abs(x) == IF x < 0 THEN -x ELSE x

\* nx.to_numpy_array(G): A[i][j] = 1 when G has the edge nodes[i] -> nodes[j]
Adjacency(g) ==
    Vec([i \in DOMAIN g.nodes |-> Vec([j \in DOMAIN g.nodes |->
        IF \E e \in Range(g.edges) : e.u = g.nodes[i] /\ e.v = g.nodes[j]
        THEN 1 ELSE 0], Len(g.nodes))], Len(g.nodes))

\* k = 3 / n ** 0.4 of the 3D call, in hundredths, n = 1, 2, ...
SpringConstant3D == <<300, 227, 193, 172, 158, 147, 138, 131, 125, 119>>

\* the k argument of the two spring_layout calls
SpringConstant(n, d) ==
    IF d = 3
    THEN SpringConstant3D[Min(n, Len(SpringConstant3D))]
    ELSE 5000 \div ISqrt(10000 * n)

\* distance = max(norm(delta), 0.01) for every pair of rows
Distances(P, n, d) ==
    Vec([i \in 1..n |-> Vec([j \in 1..n |->
        Max(ISqrt(SumOver([c \in 1..d |->
                     (P[i][c] - P[j][c]) * (P[i][c] - P[j][c])], 1, d)), 1)], n)], n)

\* displacement = sum over j of delta * (k^2 / distance^2 - A * distance / k)
Displacements(P, D, A, k, n, d) ==
    Vec([i \in 1..n |-> Vec([c \in 1..d |->
        SumOver([j \in 1..n |->
                    (((P[i][c] - P[j][c]) * k * k) \div (D[i][j] * D[i][j]))
                      - ((A[i][j] * (P[i][c] - P[j][c]) * D[i][j]) \div k)],
                1, n)], d)], n)

\* length = max(norm(displacement), 0.01)
Lengths(disp, n, d) ==
    Vec([i \in 1..n |->
        Max(ISqrt(SumOver([c \in 1..d |-> disp[i][c] * disp[i][c]], 1, d)), 1)], n)

\* pos += displacement * t / length
Move(P, disp, len, t, n, d) ==
    Vec([i \in 1..n |->
        Vec([c \in 1..d |-> P[i][c] + ((disp[i][c] * t) \div len[i])], d)], n)

\* one round of _fruchterman_reingold: repulsion between every pair of
\* nodes, attraction along the edges, a step of length t
Round(P, A, k, t, n, d) ==
    LET D == Distances(P, n, d)
        disp == Displacements(P, D, A, k, n, d)
        len == Lengths(disp, n, d)
    IN Move(P, disp, len, t, n, d)

RECURSIVE Rounds(_, _, _, _, _, _, _, _)
Rounds(P, A, k, t, dt, n, d, left) ==
    IF left = 0 THEN P
    ELSE Rounds(Round(P, A, k, t, n, d), A, k, t - dt, dt, n, d, left - 1)

\* nx.rescale_layout: centred on the mean, scaled to the unit box
RescaleLayout(P, n, d) ==
    LET mean == Vec([c \in 1..d |->
                        SumOver([i \in 1..n |-> P[i][c]], 1, n) \div n], d)
        Q == Vec([i \in 1..n |-> Vec([c \in 1..d |-> P[i][c] - mean[c]], d)], n)
        lim == MaxOver([i \in 1..n |->
                          MaxOver([c \in 1..d |-> Abs(Q[i][c])], 1, d)], 1, n)
    IN IF lim > 0
       THEN Vec([i \in 1..n |->
                   Vec([c \in 1..d |-> (Q[i][c] * 100) \div lim], d)], n)
       ELSE Q

IndexOf(s, x) == CHOOSE i \in DOMAIN s : s[i] = x

\* the positions by row of the node list
LayoutRows(nodes, A, d, rounds) ==
    LET n == Len(nodes)
        P0 == InitialPositions(n, d)
        ext(c) == MaxOver([i \in 1..n |-> P0[i][c]], 1, n)
                    - MinOver([i \in 1..n |-> P0[i][c]], 1, n)
        t == Max(ext(1), ext(2)) \div 10
        dt == t \div (rounds + 1)
    IN RescaleLayout(
          Rounds(P0, A, SpringConstant(n, d), t, dt, n, d, rounds), n, d)

\* the bug of seeding the initial positions from the edge list instead of
\* the node list: the row of a node is its rank among the edge endpoints,
\* the nodes without an edge after them
SpringLayoutByEdges(g, d, rounds) ==
    LET ends == Flatten([i \in DOMAIN g.edges |-> <<g.edges[i].v, g.edges[i].u>>])
        RECURSIVE Dedup(_, _)
        Dedup(s, acc) ==
            IF s = <<>> THEN acc ELSE Dedup(Tail(s), AppendNew(acc, s[1]))
        order == Dedup(ends \o g.nodes, <<>>)
        rows == LayoutRows(order,
                           Adjacency([nodes |-> order, edges |-> g.edges]),
                           d, rounds)
    IN IF NumberOfNodes(g) = 0 THEN <<>>
       ELSE IF NumberOfNodes(g) = 1
       THEN [x \in Range(g.nodes) |-> [c \in 1..d |-> 0]]
       ELSE [x \in Range(g.nodes) |-> rows[IndexOf(order, x)]]

\* nx.spring_layout: {} for the empty graph, the centre for a single node,
\* dict(zip(G, pos)) otherwise
SpringLayout(g, d, rounds) ==
    IF NumberOfNodes(g) = 0 THEN <<>>
    ELSE IF NumberOfNodes(g) = 1
    THEN [x \in Range(g.nodes) |-> [c \in 1..d |-> 0]]
    ELSE LET rows == LayoutRows(g.nodes, Adjacency(g), d, rounds)
         IN [x \in Range(g.nodes) |-> rows[IndexOf(g.nodes, x)]]

(***************************************************************************)
(* The style assignment and the traces.                                    *)
(* A colour dictionary (edge_type_colors, node_type_colors, edge_types,    *)
(* node_types) is the sequence of its (key, colour) entries in insertion   *)
(* order.  A palette stands for px.colors.qualitative.Dark24 / Plotly:     *)
(* entry i is the pair <<name, i>>.                                        *)
(***************************************************************************)
EdgePaletteLen == 2    \* entries of the edge palette (Dark24 has 24)
NodePaletteLen == 2    \* entries of the node palette (Plotly has 10)

Palette(name, n) == [i \in 1..n |-> <<name, i>>]

distinct_colors  == Palette("Dark24", EdgePaletteLen)
node_color_scale == Palette("Plotly", NodePaletteLen)

GreyEdge == <<"rgba(100,100,100,0.8)", 0>>
BlueNode == <<"rgba(50,50,100,0.9)", 0>>

Keys(dict) == {dict[i].key : i \in DOMAIN dict}

Lookup(dict, key) == dict[CHOOSE i \in DOMAIN dict : dict[i].key = key].color

\* the bug of indexing the palette without the modulo
AssignColorNoWrap(dict, key, palette) ==
    IF key \in Keys(dict) THEN dict
    ELSE Append(dict, [key |-> key,
                       color |-> palette[Min(Len(dict) + 1, Len(palette))]])

\* "if t not in colors: colors[t] = palette[len(colors) % len(palette)]"
AssignColor(dict, key, palette) ==
    IF key \in Keys(dict) THEN dict
    ELSE Append(dict, [key |-> key,
                       color |-> palette[(Len(dict) % Len(palette)) + 1]])

\* edge[2].get('type', default)
EdgeType(e, default) ==
    IF "type" \in DOMAIN e.data THEN e.data["type"] ELSE default

\* isinstance(edge_type, str) and len(edge_type) > 0
IsNamedType(c) == c.k = "str" /\ c.v # ""

\* whether an edge type takes part in the colour dictionary:
\* 3D: named strings only (the others are drawn grey); 2D: every value
IsEdgeCategory(d, c) == IF d = 3 THEN IsNamedType(c) ELSE TRUE

\* the default of data.get('type', ...): '' in 3D, '关联' (guanlian) in 2D
EdgeTypeDefault(d) == IF d = 3 THEN Str("") ELSE Str("guanlian")

RECURSIVE EdgeColorDict(_, _, _)
\* the colour dictionary after the edge loop
EdgeColorDict(edges, d, dict) ==
    IF edges = <<>> THEN dict
    ELSE LET t == EdgeType(edges[1], EdgeTypeDefault(d))
         IN EdgeColorDict(Tail(edges), d,
                IF IsEdgeCategory(d, t)
                THEN AssignColor(dict, t, distinct_colors) ELSE dict)

RECURSIVE EdgeColors(_, _, _)
\* the colour given to each edge, in iteration order
EdgeColors(edges, d, dict) ==
    IF edges = <<>> THEN <<>>
    ELSE LET t == EdgeType(edges[1], EdgeTypeDefault(d))
             dict2 == IF IsEdgeCategory(d, t)
                      THEN AssignColor(dict, t, distinct_colors) ELSE dict
         IN <<IF IsEdgeCategory(d, t) THEN Lookup(dict2, t) ELSE GreyEdge>>
              \o EdgeColors(Tail(edges), d, dict2)

\* the hover text of each edge: its type, '关系' (guanxi) for an unnamed one in 3D
EdgeText(edges, d) ==
    [i \in DOMAIN edges |->
        LET t == EdgeType(edges[i], EdgeTypeDefault(d))
        IN IF IsEdgeCategory(d, t) THEN t ELSE Str("guanxi")]

\* node[1].get('type', node[1].get('labels', 'unknown')): nodes are bare
NodeType(g, x) == Str("unknown")

\* node[1].get('name', node_label)
NodeName(g, x) == x

RECURSIVE NodeColorDict(_, _, _)
NodeColorDict(g, nodes, dict) ==
    IF nodes = <<>> THEN dict
    ELSE NodeColorDict(g, Tail(nodes),
                       AssignColor(dict, NodeType(g, nodes[1]), node_color_scale))

RECURSIVE NodeColors(_, _, _)
NodeColors(g, nodes, dict) ==
    IF nodes = <<>> THEN <<>>
    ELSE LET dict2 == AssignColor(dict, NodeType(g, nodes[1]), node_color_scale)
         IN <<Lookup(dict2, NodeType(g, nodes[1]))>>
              \o NodeColors(g, Tail(nodes), dict2)

\* the bug of counting a self-loop once
DegreeSimple(g, x) ==
    Cardinality({i \in DOMAIN g.edges : g.edges[i].u = x \/ g.edges[i].v = x})

\* dict(G.degree()): in-degree plus out-degree, a self-loop counting twice
Degree(g, x) ==
    Cardinality({i \in DOMAIN g.edges : g.edges[i].u = x})
      + Cardinality({i \in DOMAIN g.edges : g.edges[i].v = x})

MaxDegree(g) ==
    IF g.nodes = <<>> THEN 1
    ELSE MaxOver([i \in DOMAIN g.nodes |-> Degree(g, g.nodes[i])],
                 1, Len(g.nodes))

MinDegree(g) ==
    IF g.nodes = <<>> THEN 1
    ELSE MinOver([i \in DOMAIN g.nodes |-> Degree(g, g.nodes[i])],
                 1, Len(g.nodes))

\* the bug of sizing by the degree itself: base + span * degree
NodeSizeUnscaled(g, x, d) ==
    (IF d = 3 THEN 800 ELSE 1500) + (IF d = 3 THEN 1500 ELSE 2000) * Degree(g, x)

\* the variant that gives the middle of the range where all degrees are equal
NodeSizeMidpoint(g, x, d) ==
    LET base == IF d = 3 THEN 800 ELSE 1500
        span == IF d = 3 THEN 1500 ELSE 2000
    IN IF MaxDegree(g) = MinDegree(g) THEN base + span \div 2
       ELSE base + ((span * (Degree(g, x) - MinDegree(g)) * 100)
                      \div ((MaxDegree(g) - MinDegree(g)) * 100 + 1))

\* base + span * (degree - min) / (max - min + 0.01), in hundredths:
\* 8 + 15 * ... in 3D, 15 + 20 * ... in 2D
NodeSize(g, x, d) ==
    LET base == IF d = 3 THEN 800 ELSE 1500
        span == IF d = 3 THEN 1500 ELSE 2000
    IN base + ((span * (Degree(g, x) - MinDegree(g)) * 100)
                 \div ((MaxDegree(g) - MinDegree(g)) * 100 + 1))

symbols == <<"circle", "square", "diamond", "cross", "x">>

\* Python's hash() of a str: keyed by the interpreter's hash seed
PyHash(seed, c) == seed * 3 + (IF c.v = "unknown" THEN 1 ELSE 2)

\* symbols[hash(node_type) % len(symbols)]
NodeSymbol(g, x, seed) ==
    symbols[(PyHash(seed, NodeType(g, x)) % Len(symbols)) + 1]

\* the bug of leaving the node categories out of the legend
LegendWithoutNodes(edgeDict, nodeDict) ==
    [i \in DOMAIN edgeDict |-> [kind |-> "edge", name |-> edgeDict[i].key,
                                 color |-> edgeDict[i].color]]

\* the legend: one trace per entry of the edge dictionary, then one per
\* entry of the node dictionary
Legend(edgeDict, nodeDict) ==
    [i \in DOMAIN edgeDict |-> [kind |-> "edge", name |-> edgeDict[i].key,
                                 color |-> edgeDict[i].color]]
    \o [i \in DOMAIN nodeDict |-> [kind |-> "node", name |-> nodeDict[i].key,
                                    color |-> nodeDict[i].color]]

\* the bug of listing every attribute of the node
NodeHoverUnfiltered(g, x, d) ==
    [name |-> NodeName(g, x), type |-> NodeType(g, x), id |-> x,
     connections |-> Degree(g, x),
     attributes |-> IF "data" \in DOMAIN g THEN g.data[x] ELSE <<>>]

\* the hover text of a node, by its lines: name, type, ID, connections and
\* one line per attribute of the node whose key is not name, type, labels,
\* embedding or vector (3D: and whose value is a str, an int or a float); a
\* str of more than 100 characters is cut to 97 characters and "..."
NodeHover(g, x, d) ==
    LET data == IF "data" \in DOMAIN g THEN g.data[x] ELSE <<>>
        listed(a) ==
            /\ a.key \notin {"name", "type", "labels", "embedding", "vector"}
            /\ d = 3 => a.value.k \in {"str", "int", "float"}
        kept == SelectSeq(data, listed)
        shown(val) == IF val.k = "str" /\ val.len > 100
                      THEN [k |-> "str", v |-> <<val.v, "...">>, len |-> 97 + 3]
                      ELSE val
    IN [name |-> NodeName(g, x), type |-> NodeType(g, x), id |-> x,
        connections |-> Degree(g, x),
        attributes |-> [i \in DOMAIN kept |->
                          [key |-> kept[i].key, value |-> shown(kept[i].value)]]]

\* the None that ends a line segment in edge_x, edge_y, edge_z
NonePoint == <<>>

\* the control point of the curve of the i-th edge (i from 0), in
\* hundredths: the midpoint moved by curve_factor = 0.2 along the normal,
\* to the one side for even i and to the other for odd i; the midpoint
\* itself for an edge of length zero
ControlPoint(p0, p1, i) ==
    LET dx == p1[1] - p0[1]
        dy == p1[2] - p0[2]
        norm == ISqrt(dx * dx + dy * dy)
        side == IF i % 2 = 0 THEN 1 ELSE -1
    IN IF norm > 0
       THEN <<(p0[1] + p1[1]) \div 2 + (20 * side * (-dy)) \div norm,
              (p0[2] + p1[2]) \div 2 + (20 * side * dx) \div norm>>
       ELSE <<(p0[1] + p1[1]) \div 2, (p0[2] + p1[2]) \div 2>>

\* the arrowhead of a curve: bx[-2] - bx[-3] of the 50 points of the
\* Bezier curve gives the direction (ux, uy), in thousandths, (0, 0) when
\* the two points coincide; the polygon is in units of 1e-5
ArrowHead(p0, c, p1, color) ==
    LET dx == 95 * p1[1] - 92 * c[1] - 3 * p0[1]
        dy == 95 * p1[2] - 92 * c[2] - 3 * p0[2]
        norm == ISqrt(dx * dx + dy * dy)
        ux == IF norm > 0 THEN (1000 * dx) \div norm ELSE 0
        uy == IF norm > 0 THEN (1000 * dy) \div norm ELSE 0
        tip == <<1000 * p1[1], 1000 * p1[2]>>
    IN [direction |-> <<ux, uy>>, color |-> color,
        x |-> <<tip[1] - 3 * (ux + uy \div 2), tip[1], tip[1] - 3 * (ux - uy \div 2)>>,
        y |-> <<tip[2] - 3 * (uy - ux \div 2), tip[2], tip[2] - 3 * (uy + ux \div 2)>>]

\* the curve trace and the arrow trace of the i-th edge (i from 0) in 2D
EdgeTraces2D(e, p, i, color) ==
    LET c == ControlPoint(p[e.u], p[e.v], i)
    IN [curve |-> [start |-> p[e.u], control |-> c, end |-> p[e.v],
                   color |-> color, text |-> EdgeType(e, EdgeTypeDefault(2))],
        arrow |-> ArrowHead(p[e.u], c, p[e.v], color)]

\* Graph3DVisualizer._create_node_link_trace (3D) and the trace building of
\* create_2d_visualization (2D, which sets no marker symbol).  In 3D every
\* edge contributes three entries to the edge arrays: start, end, None; in
\* 2D every edge adds a curve trace and an arrow trace to the figure.
CreateTraces(g, p, d, seed) ==
    LET es == EdgesOf(g)
        ec == EdgeColors(es, d, <<>>)
        drawn == [i \in DOMAIN es |-> EdgeTraces2D(es[i], p, i - 1, ec[i])]
    IN [edge_points |-> IF d = 3
                        THEN Flatten([i \in DOMAIN es |->
                                 <<p[es[i].u], p[es[i].v], NonePoint>>])
                        ELSE <<>>,
        edge_text   |-> IF d = 3 THEN EdgeText(es, d) ELSE <<>>,
        edge_colors |-> IF d = 3
                        THEN Flatten([i \in DOMAIN es |-> <<ec[i], ec[i], ec[i]>>])
                        ELSE <<>>,
        edge_curves |-> IF d = 3 THEN <<>>
                        ELSE [i \in DOMAIN es |-> drawn[i].curve],
        edge_arrows |-> IF d = 3 THEN <<>>
                        ELSE [i \in DOMAIN es |-> drawn[i].arrow],
        node_pos    |-> [i \in DOMAIN g.nodes |-> p[g.nodes[i]]],
        node_text   |-> [i \in DOMAIN g.nodes |-> NodeName(g, g.nodes[i])],
        node_colors |-> NodeColors(g, g.nodes, <<>>),
        node_sizes  |-> [i \in DOMAIN g.nodes |-> NodeSize(g, g.nodes[i], d)],
        node_symbols |-> IF d = 3
                         THEN [i \in DOMAIN g.nodes |->
                                  NodeSymbol(g, g.nodes[i], seed)]
                         ELSE <<>>,
        node_hover  |-> [i \in DOMAIN g.nodes |-> NodeHover(g, g.nodes[i], d)],
        legend      |-> Legend(EdgeColorDict(es, d, <<>>),
                               NodeColorDict(g, g.nodes, <<>>))]

NoScene == [edge_points |-> <<>>, edge_text |-> <<>>, edge_colors |-> <<>>,
            edge_curves |-> <<>>, edge_arrows |-> <<>>,
            node_pos |-> <<>>, node_text |-> <<>>, node_colors |-> <<>>,
            node_sizes |-> <<>>, node_symbols |-> <<>>, node_hover |-> <<>>,
            legend |-> <<>>]

(***************************************************************************)
(* One run of create_3d_visualization (dim = 3) or create_2d_visualization *)
(* (dim = 2), step by step.  Every exception raised inside the method is   *)
(* caught by its "except Exception" and turned into the return value None. *)
(***************************************************************************)
MaxLimit == 3        \* the largest node limit a caller passes
LayoutRounds == 1    \* rounds of the simulation (the calls ask for 70 and 50)
MaxHashSeed == 1     \* the hash seeds an interpreter may start with: 0..MaxHashSeed

OutputPath == "output/knowledge_graph.html"

NoFile == [written |-> FALSE, complete |-> FALSE, content |-> NoScene]

NoRun == [finished |-> FALSE]

InitRun(tables, limits, dims, seeds) ==
    /\ delivered \in tables
    /\ limit \in limits
    /\ dim \in dims
    /\ hashSeed \in seeds
    /\ df = EmptyFrame
    /\ G = EmptyGraph
    /\ pos = <<>>
    /\ scene = NoScene
    /\ result = "pending"
    /\ artifact = NoFile
    /\ console = {}
    /\ first = NoRun
    /\ pc = "fetch"
    /\ AppIdle

\* no file is looked at when the table comes from the database
NoFiles == <<>>

\* the bug of returning the output path where the method gives up
ReturnPath(message) ==
    /\ result' = OutputPath
    /\ console' = console \cup {message}
    /\ pc' = "done"

\* "return None": the method ends without an artifact
ReturnNone(message) ==
    /\ result' = "None"
    /\ console' = console \cup {message}
    /\ pc' = "done"

\* the data source hands over its table; an empty one ends the run
Fetch ==
    /\ pc = "fetch"
    /\ df' = delivered
    /\ IF IsEmpty(delivered)
       THEN ReturnNone("no valid graph data")
       ELSE pc' = "clean" /\ UNCHANGED <<result, console>>
    /\ UNCHANGED appVars
    /\ UNCHANGED <<dim, limit, delivered, G, pos, scene, artifact, hashSeed, first, files>>

\* "df = self._clean_dataframe(df)"; an empty result ends the run
Clean ==
    /\ pc = "clean"
    /\ df' = CleanDataframe(df)
    /\ IF IsEmpty(df')
       THEN ReturnNone("cleaned data is empty")
       ELSE pc' = "build" /\ UNCHANGED <<result, console>>
    /\ UNCHANGED appVars
    /\ UNCHANGED <<dim, limit, delivered, G, pos, scene, artifact, hashSeed, first, files>>

\* "G = self._create_knowledge_graph(df)"; a graph without nodes ends the run
Build ==
    /\ pc = "build"
    /\ G' = CreateKnowledgeGraph(df)
    /\ IF NumberOfNodes(G') = 0
       THEN ReturnNone("graph is empty")
       ELSE pc' = "truncate" /\ UNCHANGED <<result, console>>
    /\ UNCHANGED appVars
    /\ UNCHANGED <<dim, limit, delivered, df, pos, scene, artifact, hashSeed, first, files>>

\* "if G.number_of_nodes() > limit: ... G = G.subgraph(nodes).copy()"
TruncateGraph ==
    /\ pc = "truncate"
    /\ G' = Truncate(G, limit)
    /\ console' = IF NumberOfNodes(G) > limit
                  THEN console \cup {"truncated"} ELSE console
    /\ pc' = "layout"
    /\ UNCHANGED appVars
    /\ UNCHANGED <<dim, limit, delivered, df, pos, scene, result, artifact,
                   hashSeed, first, files>>

\* "pos = nx.spring_layout(G, ...)".  3D: k = 3 / n ** 0.4 divides by zero
\* for a graph without nodes (ZeroDivisionError, caught).  2D: k =
\* 0.5 / np.sqrt(n) is inf for such a graph and the layout is {}.
Layout ==
    /\ pc = "layout"
    /\ IF dim = 3 /\ NumberOfNodes(G) = 0
       THEN ReturnNone("float division by zero") /\ UNCHANGED pos
       ELSE /\ pos' = SpringLayout(G, dim, LayoutRounds)
            /\ pc' = "trace"
            /\ UNCHANGED <<result, console>>
    /\ UNCHANGED appVars
    /\ UNCHANGED <<dim, limit, delivered, df, G, scene, artifact, hashSeed, first, files>>

\* "traces = self._create_node_link_trace(G, pos)" and its 2D counterpart
Trace ==
    /\ pc = "trace"
    /\ scene' = CreateTraces(G, pos, dim, hashSeed)
    /\ pc' = "write"
    /\ UNCHANGED appVars
    /\ UNCHANGED <<dim, limit, delivered, df, G, pos, result, artifact,
                   console, hashSeed, first, files>>

\* "fig.write_html(output_path, ...)" opens the file at the output path for
\* writing, which empties it
OpenFile ==
    /\ pc = "write"
    /\ artifact' = [written |-> TRUE, complete |-> FALSE, content |-> NoScene]
    /\ pc' = "writing"
    /\ UNCHANGED appVars
    /\ UNCHANGED <<dim, limit, delivered, df, G, pos, scene, result, console,
                   hashSeed, first, files>>

\* the figure is written out and the file closed; "return output_path"
Write ==
    /\ pc = "writing"
    /\ artifact' = [written |-> TRUE, complete |-> TRUE, content |-> scene]
    /\ result' = OutputPath
    /\ pc' = "done"
    /\ UNCHANGED appVars
    /\ UNCHANGED <<dim, limit, delivered, df, G, pos, scene, console,
                   hashSeed, first, files>>

\* the write raises part-way (an OSError); "except Exception" logs it and
\* returns None, the file stays as the write left it
WriteFails ==
    /\ pc = "writing"
    /\ ReturnNone("write failed")
    /\ UNCHANGED appVars
    /\ UNCHANGED <<dim, limit, delivered, df, G, pos, scene, artifact,
                   hashSeed, first, files>>

Next ==
    \/ Fetch \/ Clean \/ Build \/ TruncateGraph \/ Layout \/ Trace
    \/ OpenFile \/ Write \/ WriteFails

(***************************************************************************)
(* The tables delivered in the runs of Spec: edges over three nodes, with  *)
(* self-loops and antiparallel pairs, and rows without a source.           *)
(***************************************************************************)
MaxEdges == 2         \* rows of a delivered table in the runs of Spec

EdgeColumns == <<"source", "target", "type">>

ShapeRows ==
    [source : {Null, Str("A"), Str("B")},
     target : {Str("A"), Str("B"), Str("C")},
     type   : {Str("knows")}]

ShapeTables ==
    {EmptyFrame} \cup
    {[columns |-> EdgeColumns, rows |-> rs] : rs \in SeqsUpTo(ShapeRows, MaxEdges)}

Init == InitRun(ShapeTables, 0..MaxLimit, {2, 3}, {0}) /\ files = NoFiles

Spec == Init /\ [][Next]_vars

(***************************************************************************)
(* The cleaning runs: a delivered table with null, integer and string      *)
(* endpoints and possibly missing types.                                   *)
(***************************************************************************)
MessyRows ==
    [source : {Null, Str("A"), Num("1"), Str("1")},
     target : {Null, Str("B")},
     type   : {Null, Str("knows"), Str("likes")}]

MessyTables ==
    {[columns |-> EdgeColumns, rows |-> rs] : rs \in SeqsUpTo(MessyRows, MaxRows)}

InitClean == InitRun(MessyTables, {MaxLimit}, {3}, {0}) /\ files = NoFiles

SpecClean == InitClean /\ [][Next]_vars

(***************************************************************************)
(* The style runs: row i is an edge into the i-th target, its source and   *)
(* its type free, so that a table holds up to MaxTypedEdges edge types.    *)
(***************************************************************************)
MaxTypedEdges == 3    \* rows of a delivered table in the style runs

StyleTargets == <<"A", "B", "C", "D", "E", "F">>

StyleTypes == {Null, Str("knows"), Str("likes"), Str("cites")}

StyleRows(n) ==
    {[i \in 1..n |-> [source |-> ch[i][1], target |-> Str(StyleTargets[i]),
                      type |-> ch[i][2]]] :
        ch \in [1..n -> {Str("A"), Str("B")} \X StyleTypes]}

StyleTables ==
    {[columns |-> EdgeColumns, rows |-> rs] :
        rs \in UNION {StyleRows(n) : n \in 0..Min(MaxTypedEdges, Len(StyleTargets))}}

InitStyle == InitRun(StyleTables, {MaxLimit}, {2, 3}, {0}) /\ files = NoFiles

SpecStyle == InitStyle /\ [][Next]_vars

(***************************************************************************)
(* Two runs on the same edges: after a run the method is called again, in  *)
(* the same interpreter or in a new one (which starts with a hash seed of  *)
(* its own), on the same rows in any order.                                *)
(***************************************************************************)
PairRows ==
    [source : {Str("A"), Str("B")}, target : {Str("A"), Str("C")},
     type : {Str("knows")}]

PairTables ==
    {[columns |-> EdgeColumns, rows |-> rs] : rs \in SeqsUpTo(PairRows, MaxEdges)}

\* the orders in which the rows of a table may be stored
Reorderings(rows) ==
    {[i \in DOMAIN rows |-> rows[f[i]]] : f \in Permutations(DOMAIN rows)}

FirstRun ==
    [finished |-> TRUE, delivered |-> delivered, limit |-> limit, dim |-> dim,
     hashSeed |-> hashSeed, G |-> G, pos |-> pos, scene |-> scene,
     result |-> result]

RunAgain(seeds) ==
    /\ pc = "done"
    /\ ~first.finished
    /\ first' = FirstRun
    /\ \E rows \in Reorderings(delivered.rows) :
          delivered' = [delivered EXCEPT !.rows = rows]
    /\ hashSeed' \in seeds
    /\ df' = EmptyFrame
    /\ G' = EmptyGraph
    /\ pos' = <<>>
    /\ scene' = NoScene
    /\ result' = "pending"
    /\ console' = {}
    /\ pc' = "fetch"
    /\ UNCHANGED appVars
    /\ UNCHANGED <<dim, limit, artifact, files>>

\* the method is called once more by the running program
CallAgain == RunAgain({hashSeed})

\* the program is started once more
Restart == RunAgain(0..MaxHashSeed)

InitTwo == InitRun(PairTables, {MaxLimit - 1, MaxLimit}, {2, 3}, 0..MaxHashSeed) /\ files = NoFiles

NextTwo == Next \/ CallAgain \/ Restart

SpecTwo == InitTwo /\ [][NextTwo]_vars

(***************************************************************************)
(* The graphrag data source.  A path is <<directory, name, extension>>; a  *)
(* file is what reading it gives: a table, or an error (readable = FALSE). *)
(***************************************************************************)
possible_data_files ==
    << <<"root/output", "relationships", "parquet">>,
       <<"root/output", "edges", "parquet">>,
       <<"root/output", "graph_data", "parquet">>,
       <<"root", "relationships", "parquet">>,
       <<"root", "edges", "parquet">>,
       <<"output_dir", "edges", "csv">>,
       <<"output_dir", "relationships", "csv">>,
       <<"output_dir", "relationships", "parquet">>,
       <<"cwd/output", "edges", "csv">>,
       <<"cwd/output", "relationships", "parquet">> >>

possible_dirs == <<"root/output", "root", "output_dir", "cwd/output">>

column_mappings ==
    << <<"destination", "target">>, <<"dst", "target">>,
       <<"target_id", "target">>, <<"to", "target">>, <<"to_id", "target">>,
       <<"end", "target">>,
       <<"src", "source">>, <<"source_id", "source">>, <<"from", "source">>,
       <<"from_id", "source">>, <<"start", "source">>,
       <<"relationship", "type">>, <<"relation", "type">>,
       <<"rel_type", "type">>, <<"edge_type", "type">> >>

TableOf(file) == [columns |-> file.columns, rows |-> file.rows]

\* df.rename(columns={old: new})
Rename(t, old, new) ==
    LET ren(c) == IF c = old THEN new ELSE c
        back(c) == IF c = new THEN old ELSE c
    IN [columns |-> [i \in DOMAIN t.columns |-> ren(t.columns[i])],
        rows |-> [i \in DOMAIN t.rows |->
                    [c \in {ren(x) : x \in Range(t.columns)} |->
                        t.rows[i][back(c)]]]]

RECURSIVE RenameColumns(_, _)
\* "for old_col, new_col in column_mappings.items(): if old_col in
\* df.columns and new_col not in df.columns: df = df.rename(...)"
RenameColumns(t, i) ==
    IF i > Len(column_mappings) THEN t
    ELSE LET old == column_mappings[i][1]
             new == column_mappings[i][2]
         IN RenameColumns(IF old \in Range(t.columns)
                             /\ new \notin Range(t.columns)
                          THEN Rename(t, old, new) ELSE t,
                          i + 1)

\* str.lower, on the headers that occur in the runs
Lower(col) ==
    CASE col = "Relation" -> "relation"
      [] col = "Src" -> "src"
      [] OTHER -> col

\* the bug of looking for the type column by its exact name
EnsureTypeExact(t) ==
    LET named == {i \in DOMAIN t.columns :
                    t.columns[i] \in {"relationship", "relation", "predicate",
                                      "rel_type", "edge_type"}}
        from == t.columns[CHOOSE i \in named : \A j \in named : i <= j]
    IN IF "type" \in Range(t.columns) THEN t
       ELSE [columns |-> Append(t.columns, "type"),
             rows |-> [i \in DOMAIN t.rows |->
                         [c \in Range(t.columns) \cup {"type"} |->
                             IF c # "type" THEN t.rows[i][c]
                             ELSE IF named = {} THEN Str("guanlian")
                             ELSE t.rows[i][from]]]]

\* "if 'type' not in df.columns": the type is copied from the first column
\* whose lower-cased header names a relation, or is the default
EnsureType(t) ==
    LET named == {i \in DOMAIN t.columns :
                    Lower(t.columns[i]) \in {"relationship", "relation",
                                             "predicate", "rel_type",
                                             "edge_type"}}
        from == t.columns[CHOOSE i \in named : \A j \in named : i <= j]
    IN IF "type" \in Range(t.columns) THEN t
       ELSE [columns |-> Append(t.columns, "type"),
             rows |-> [i \in DOMAIN t.rows |->
                         [c \in Range(t.columns) \cup {"type"} |->
                             IF c # "type" THEN t.rows[i][c]
                             ELSE IF named = {} THEN Str("guanlian")
                             ELSE t.rows[i][from]]]]

\* one round of the loop over possible_data_files: the reconciled table,
\* or the empty frame where the loop goes on to the next file
ReadDataFile(file) ==
    IF ~file.readable \/ IsEmpty(TableOf(file)) THEN EmptyFrame
    ELSE LET t == RenameColumns(TableOf(file), 1)
         IN IF {"source", "target"} \subseteq Range(t.columns)
            THEN EnsureType(t) ELSE EmptyFrame

\* pd.concat(dataframes, ignore_index=True): the union of the columns, the
\* rows one table after the other, a missing cell null
Concat(ts) ==
    LET RECURSIVE Union(_, _)
        Union(cs, acc) ==
            IF cs = <<>> THEN acc ELSE Union(Tail(cs), AppendNew(acc, cs[1]))
        cols == Union(Flatten([i \in DOMAIN ts |-> ts[i].columns]), <<>>)
    IN [columns |-> cols,
        rows |-> Flatten([i \in DOMAIN ts |->
                    [j \in DOMAIN ts[i].rows |->
                        [c \in Range(cols) |->
                            IF c \in Range(ts[i].columns)
                            THEN ts[i].rows[j][c] ELSE Null]]])]

\* the tables _read_parquet_files takes from one file: none or one
AcceptParquet(file) ==
    LET cols == Range(file.columns)
    IN IF ~file.readable THEN <<>>
       ELSE IF {"source", "target"} \subseteq cols THEN <<TableOf(file)>>
       ELSE IF {"source", "destination"} \subseteq cols
       THEN <<Rename(TableOf(file), "destination", "target")>>
       ELSE IF {"source_id", "target_id"} \subseteq cols
       THEN <<Rename(Rename(TableOf(file), "source_id", "source"),
                     "target_id", "target")>>
       ELSE <<>>

\* Graph3DVisualizer._read_parquet_files; listing is the order of os.listdir
ReadParquetFiles(fs, directory, listing) ==
    LET here(p) == p \in DOMAIN fs /\ p[1] = directory /\ p[3] = "parquet"
        names == SelectSeq(listing, here)
        dataframes == Flatten([i \in DOMAIN names |-> AcceptParquet(fs[names[i]])])
    IN IF dataframes = <<>> THEN EmptyFrame ELSE Concat(dataframes)

\* the nodes of the sample graph (节点0 .. 节点9)
SampleNodes ==
    <<"jiedian0", "jiedian1", "jiedian2", "jiedian3", "jiedian4",
      "jiedian5", "jiedian6", "jiedian7", "jiedian8", "jiedian9">>

\* Graph3DVisualizer._generate_sample_data: a chain and six cross edges
GenerateSampleData ==
    LET edge(u, v, t) == [source |-> Str(SampleNodes[u + 1]),
                          target |-> Str(SampleNodes[v + 1]), type |-> Str(t)]
    IN [columns |-> EdgeColumns,
        rows |-> [i \in 1..9 |-> edge(i - 1, i, "lianjiedao")]
                 \o <<edge(0, 5, "yinyong"), edge(1, 7, "yinyong"),
                      edge(2, 6, "shuyu"), edge(3, 8, "baohan"),
                      edge(4, 9, "guanlian"), edge(5, 2, "yilai")>>]

\* the bug-free reading of "concatenate all": every usable candidate file
\* contributes its rows
FetchAllCandidates(fs, listing) ==
    LET read == [i \in DOMAIN possible_data_files |->
                    IF possible_data_files[i] \in DOMAIN fs
                    THEN ReadDataFile(fs[possible_data_files[i]])
                    ELSE EmptyFrame]
        hits == SelectSeq(read, LAMBDA t : ~IsEmpty(t))
    IN IF hits # <<>> THEN [from |-> "file", table |-> Concat(hits)]
       ELSE [from |-> "sample", table |-> GenerateSampleData]

\* the bug of giving up at the first candidate file that cannot be used
FetchUntilFailure(fs, listing) ==
    LET found == {i \in DOMAIN possible_data_files :
                     possible_data_files[i] \in DOMAIN fs}
        head == CHOOSE i \in found : \A j \in found : i <= j
        t == ReadDataFile(fs[possible_data_files[head]])
    IN IF found = {} THEN [from |-> "sample", table |-> GenerateSampleData]
       ELSE IF IsEmpty(t) THEN [from |-> "none", table |-> EmptyFrame]
       ELSE [from |-> "file", table |-> t]

\* Graph3DVisualizer._fetch_graph_data_graphrag: the first usable candidate
\* file, else the first candidate directory whose parquet files give rows,
\* else the sample data
FetchGraphDataGraphrag(fs, listing) ==
    LET read == [i \in DOMAIN possible_data_files |->
                    IF possible_data_files[i] \in DOMAIN fs
                    THEN ReadDataFile(fs[possible_data_files[i]])
                    ELSE EmptyFrame]
        hits == {i \in DOMAIN read : ~IsEmpty(read[i])}
        dirs == [i \in DOMAIN possible_dirs |->
                    ReadParquetFiles(fs, possible_dirs[i], listing)]
        dhits == {i \in DOMAIN dirs : ~IsEmpty(dirs[i])}
    IN IF hits # {}
       THEN [from |-> "file",
             table |-> read[CHOOSE i \in hits : \A j \in hits : i <= j]]
       ELSE IF dhits # {}
       THEN [from |-> "directory",
             table |-> dirs[CHOOSE i \in dhits : \A j \in dhits : i <= j]]
       ELSE [from |-> "sample", table |-> GenerateSampleData]

\* the orders in which os.listdir may give the paths
Listings(paths) ==
    {s \in [1..Cardinality(paths) -> paths] :
        \A i, j \in DOMAIN s : i # j => s[i] # s[j]}

\* "df = self._fetch_graph_data_graphrag()"; the console tells where the
\* rows come from; an empty table ends the run
FetchGraphrag ==
    /\ pc = "fetch"
    /\ \E listing \in Listings(DOMAIN files) :
          LET got == FetchGraphDataGraphrag(files, listing)
          IN /\ df' = got.table
             /\ IF IsEmpty(got.table)
                THEN ReturnNone("no valid graph data")
                ELSE /\ pc' = "clean"
                     /\ console' = console \cup {got.from}
                     /\ UNCHANGED result
    /\ UNCHANGED appVars
    /\ UNCHANGED <<dim, limit, delivered, G, pos, scene, artifact, hashSeed,
                   first, files>>

NextFetch ==
    \/ FetchGraphrag \/ Clean \/ Build \/ TruncateGraph \/ Layout \/ Trace
    \/ OpenFile \/ Write \/ WriteFails

(***************************************************************************)
(* The runs on a working directory with up to MaxFiles files.              *)
(***************************************************************************)
MaxFiles == 2     \* files under the candidate directories

\* two candidate files, two other parquet files of one directory, a csv
FilePaths ==
    {<<"root/output", "relationships", "parquet">>,
     <<"root/output", "create_final_relationships", "parquet">>,
     <<"root/output", "create_final_edges", "parquet">>,
     <<"root", "edges", "parquet">>,
     <<"output_dir", "edges", "csv">>}

FileContents ==
    {[readable |-> FALSE, columns |-> <<>>, rows |-> <<>>],
     [readable |-> TRUE, columns |-> <<"source", "target">>, rows |-> <<>>],
     [readable |-> TRUE, columns |-> EdgeColumns,
      rows |-> <<[source |-> Str("A"), target |-> Str("B"),
                  type |-> Str("knows")]>>],
     [readable |-> TRUE, columns |-> <<"source_id", "target_id">>,
      rows |-> <<[source_id |-> Str("B"), target_id |-> Str("C")]>>],
     [readable |-> TRUE, columns |-> <<"src", "dst">>,
      rows |-> <<[src |-> Str("C"), dst |-> Str("A")]>>]}

FileSystems ==
    UNION {[paths -> FileContents] :
              paths \in {P \in SUBSET FilePaths : Cardinality(P) <= MaxFiles}}

InitFetch ==
    InitRun({EmptyFrame}, {MaxLimit}, {2, 3}, {0}) /\ files \in FileSystems

SpecFetch == InitFetch /\ [][NextFetch]_vars

(***************************************************************************)
(* The runs on one candidate file with any headers: its one row holds in   *)
(* each cell the header of the cell's column.                              *)
(***************************************************************************)
MaxColumns == 3   \* columns of the candidate file

Headers ==
    {"source", "target", "type", "src", "Src", "dst", "to", "Relation",
     "predicate", "weight"}

HeaderRows ==
    {cs \in SeqsUpTo(Headers, MaxColumns) :
        \A i, j \in DOMAIN cs : i # j => cs[i] # cs[j]}

HeaderFiles ==
    {[readable |-> TRUE, columns |-> cs,
      rows |-> <<[c \in Range(cs) |-> Str(c)]>>] : cs \in HeaderRows}

InitRecon ==
    /\ InitRun({EmptyFrame}, {MaxLimit}, {3}, {0})
    /\ files \in [{possible_data_files[1]} -> HeaderFiles]

SpecRecon == InitRecon /\ [][NextFetch]_vars

(***************************************************************************)
(* The trace building applied to a graph whose nodes carry attributes: the *)
(* node A of the graph A -> B has up to MaxAttributes of them.  A value is *)
(* a cell with the length of its printed form.                             *)
(***************************************************************************)
MaxAttributes == 2    \* attributes of a node

AttributeValues ==
    {[k |-> "str", v |-> "short", len |-> 5],
     [k |-> "str", v |-> "long", len |-> 101],
     [k |-> "vector", v |-> "floats", len |-> 4000],
     [k |-> "list", v |-> "names", len |-> 12]}

NodeAttributes ==
    {as \in SeqsUpTo([key : {"description", "embedding", "description_embedding"},
                      value : AttributeValues], MaxAttributes) :
        \A i, j \in DOMAIN as : i # j => as[i].key # as[j].key}

InitHover ==
    /\ dim \in {2, 3}
    /\ \E as \in NodeAttributes :
          G = [nodes |-> <<Str("A"), Str("B")>>,
               edges |-> <<[u |-> Str("A"), v |-> Str("B"),
                            data |-> [type |-> Str("knows")]]>>,
               data |-> (Str("A") :> as) @@ (Str("B") :> <<>>)]
    /\ pos = SpringLayout(G, dim, LayoutRounds)
    /\ pc = "trace"
    /\ limit = MaxLimit
    /\ hashSeed = 0
    /\ delivered = EmptyFrame
    /\ df = EmptyFrame
    /\ scene = NoScene
    /\ result = "pending"
    /\ artifact = NoFile
    /\ console = {}
    /\ first = NoRun
    /\ files = NoFiles
    /\ AppIdle

NextHover == Trace \/ OpenFile \/ Write \/ WriteFails

SpecHover == InitHover /\ [][NextHover]_vars

(***************************************************************************)
(* Properties of the cleaning                                              *)
(***************************************************************************)
\* the method has passed "df = self._clean_dataframe(df)"
Cleaned == pc \notin {"fetch", "clean"} /\ ~IsEmpty(delivered)

\* the rows of the delivered table that have both endpoints
ValidAt == {i \in DOMAIN delivered.rows :
              ~IsNull(delivered.rows[i].source) /\ ~IsNull(delivered.rows[i].target)}

\* the endpoints of a row as printed
PairOf(row) == <<row.source.v, row.target.v>>

\* the first delivered row with the printed endpoints of the row r
FirstOccurrence(r) ==
    CHOOSE i \in ValidAt :
        /\ PairOf(delivered.rows[i]) = PairOf(r)
        /\ \A j \in ValidAt : PairOf(delivered.rows[j]) = PairOf(r) => i <= j

\* the delivered rows after the first with the printed endpoints of r
LaterOccurrences(r) ==
    {j \in ValidAt : PairOf(delivered.rows[j]) = PairOf(r) /\ j > FirstOccurrence(r)}

\* C1: after cleaning, every row has a non-null source and a non-null target,
\* both strings, and no two rows have the same (source, target).
C1_CleanedRowsValid ==
    Cleaned =>
        /\ \A i \in DOMAIN df.rows :
              df.rows[i].source.k = "str" /\ df.rows[i].target.k = "str"
        /\ \A i, j \in DOMAIN df.rows :
              i # j => <<df.rows[i].source, df.rows[i].target>>
                         # <<df.rows[j].source, df.rows[j].target>>

\* C1 witness: a table holding the number 1 and the string "1" as source of
\* two rows with the same target has been cleaned to a single row.
C1_Witness ==
    /\ Cleaned
    /\ Len(df.rows) = 1
    /\ \E i, j \in DOMAIN delivered.rows :
          /\ delivered.rows[i].source = Num("1")
          /\ delivered.rows[j].source = Str("1")
          /\ delivered.rows[i].target = delivered.rows[j].target

\* C2 as stated: the surviving row of equal (source, target) rows has the
\* type of the first occurrence, or, when that one has no type and a later
\* occurrence has one, a later occurrence's type.
C2_TypeTakenFromLater ==
    Cleaned =>
        \A i \in DOMAIN df.rows :
            LET r == df.rows[i]
                head == delivered.rows[FirstOccurrence(r)]
                typed == {j \in LaterOccurrences(r) :
                            ~IsNull(delivered.rows[j].type)}
            IN IF ~IsNull(head.type) \/ typed = {}
               THEN r.type = head.type
               ELSE r.type \in {delivered.rows[j].type : j \in typed}

\* C2 amended: the surviving row is the first occurrence, whole: its type is
\* the first occurrence's type even when that is missing and a later
\* occurrence has one; the survivors keep the order of the first occurrences.
C2_FirstOccurrenceWins ==
    Cleaned =>
        /\ \A i \in DOMAIN df.rows :
              LET head == delivered.rows[FirstOccurrence(df.rows[i])]
              IN /\ df.rows[i].type = head.type
                 /\ PairOf(df.rows[i]) = PairOf(head)
        /\ \A i, j \in DOMAIN df.rows :
              i < j => FirstOccurrence(df.rows[i]) < FirstOccurrence(df.rows[j])
        /\ {PairOf(df.rows[i]) : i \in DOMAIN df.rows}
             = {PairOf(delivered.rows[i]) : i \in ValidAt}

\* C2 witness: [{A,B}, {A,B,type knows}] has been cleaned to the untyped row.
C2_Witness ==
    /\ Cleaned
    /\ delivered.rows = <<[source |-> Str("A"), target |-> Str("B"), type |-> Null],
                          [source |-> Str("A"), target |-> Str("B"),
                           type |-> Str("knows")]>>
    /\ df.rows = <<[source |-> Str("A"), target |-> Str("B"), type |-> Null]>>

(***************************************************************************)
(* Properties of a run                                                     *)
(***************************************************************************)
\* C4: a run whose fetched table is empty, or has no row left after
\* cleaning, never writes the artifact and ends returning None.
C4_EmptyTableReturnsNone ==
    (IsEmpty(delivered) \/ ValidAt = {}) =>
        /\ ~artifact.written
        /\ pc = "done" => result = "None"

\* C4 witness: a table with rows, none of them with a source, has ended the
\* run with None after the cleaning.
C4_Witness ==
    /\ pc = "done"
    /\ Len(delivered.rows) > 0
    /\ ValidAt = {}
    /\ IsEmpty(df)
    /\ result = "None"
    /\ "cleaned data is empty" \in console

\* the method has passed the node limit
PastTruncation ==
    \/ pc \in {"layout", "trace", "write"}
    \/ pc = "done" /\ (result = OutputPath \/ "float division by zero" \in console)

RECURSIVE FirstSeenFrom(_, _)
FirstSeenFrom(rows, acc) ==
    IF rows = <<>> THEN acc
    ELSE FirstSeenFrom(Tail(rows),
                       AppendNew(AppendNew(acc, rows[1].source), rows[1].target))

\* the distinct endpoints of the cleaned rows in first-seen order, the source
\* of a row before its target
FirstSeen == FirstSeenFrom(df.rows, <<>>)

\* the edges of the cleaned rows
RowEdges ==
    {[u |-> df.rows[i].source, v |-> df.rows[i].target,
      data |-> RowAttributes(df.rows[i])] : i \in DOMAIN df.rows}

\* C5: past the node limit, a graph of more than limit nodes has become the
\* graph on the first limit nodes in first-seen order with exactly the edges
\* whose two endpoints are retained; a graph of at most limit nodes is
\* unchanged; the layout and the node markers cover exactly these nodes.
C5_TruncationKeepsPrefix ==
    PastTruncation =>
        LET kept == IF Len(FirstSeen) > limit
                    THEN SubSeq(FirstSeen, 1, limit) ELSE FirstSeen
        IN /\ G.nodes = kept
           /\ Len(FirstSeen) > limit => Len(G.nodes) = limit
           /\ Range(G.edges) =
                 {e \in RowEdges : e.u \in Range(kept) /\ e.v \in Range(kept)}
           /\ Len(G.edges) = Cardinality(Range(G.edges))
           /\ pc \in {"trace", "write"} => DOMAIN pos = Range(kept)
           /\ pc = "write" => Len(scene.node_pos) = Len(kept)

\* C5 witness: three nodes under a limit of two, one edge kept and one lost.
C5_Witness ==
    /\ PastTruncation
    /\ pc = "write"
    /\ Len(FirstSeen) = 3
    /\ limit = 2
    /\ Len(df.rows) = 2
    /\ Len(G.edges) = 1

(***************************************************************************)
(* Properties of two runs on the same edges (SpecTwo).                     *)
(***************************************************************************)
BothDrawn ==
    /\ first.finished
    /\ pc = "done"
    /\ result = OutputPath
    /\ first.result = OutputPath

PairsOf(g) == {<<g.edges[i].u, g.edges[i].v>> : i \in DOMAIN g.edges}

SameTopology ==
    /\ Range(G.nodes) = Range(first.G.nodes)
    /\ PairsOf(G) = PairsOf(first.G)

C7_RerunSameEncodings ==
    (BothDrawn /\ delivered = first.delivered)
        => /\ DOMAIN pos = Range(G.nodes)
           /\ DOMAIN first.pos = Range(first.G.nodes)
           /\ pos = first.pos
           /\ scene.node_colors = first.scene.node_colors
           /\ scene.node_sizes = first.scene.node_sizes
           /\ scene.node_symbols = first.scene.node_symbols

(***************************************************************************)
(* Properties of the colour assignment (SpecStyle).                        *)
(***************************************************************************)
\* the type the drawing loop reads from the i-th edge it iterates
DrawnType(i) ==
    LET data == EdgesOf(G)[i].data
    IN IF "type" \in DOMAIN data THEN data["type"]
       ELSE IF dim = 3 THEN Str("") ELSE Str("guanlian")

\* the edge types that are colour categories: in 3D the non-empty strings
\* (an edge without one is drawn grey), in 2D every value
Categorised(i) ==
    dim = 2 \/ (DrawnType(i).k = "str" /\ DrawnType(i).v # "")

\* k: the number of distinct categories met before the category of edge i
FirstSeenIndex(i) ==
    LET j == CHOOSE h \in 1..i :
                 /\ DrawnType(h) = DrawnType(i)
                 /\ \A g \in 1..(h - 1) : DrawnType(g) # DrawnType(i)
    IN Cardinality({DrawnType(h) : h \in {g \in 1..(j - 1) : Categorised(g)}})

EdgeColorOf(i) ==
    IF dim = 3 THEN scene.edge_colors[3 * i] ELSE scene.edge_curves[i].color

\* C8: the k-th distinct category (k from 0) met while iterating the edges
\* (the nodes) receives palette[k mod |palette|]; the category keeps that
\* color for every later element of the run, and two categories share a
\* color only if their first-seen indices are congruent modulo the palette
\* length.  Every node is of the one category 'unknown', k = 0.
C8_ColorsByFirstSeenOrder ==
    pc = "write" =>
        LET n == Len(EdgesOf(G))
            cats == {i \in 1..n : Categorised(i)}
        IN /\ \A i \in cats :
                EdgeColorOf(i) =
                    <<"Dark24", (FirstSeenIndex(i) % EdgePaletteLen) + 1>>
           /\ \A i, j \in cats :
                EdgeColorOf(i) = EdgeColorOf(j) =>
                    FirstSeenIndex(i) % EdgePaletteLen
                        = FirstSeenIndex(j) % EdgePaletteLen
           /\ \A i \in DOMAIN G.nodes :
                scene.node_colors[i] = <<"Plotly", 1>>

C8_Witness ==
    /\ pc = "write"
    /\ dim = 3
    /\ \E i, j \in 1..Len(EdgesOf(G)) :
          /\ i < j
          /\ Categorised(i)
          /\ Categorised(j)
          /\ DrawnType(i) # DrawnType(j)
          /\ FirstSeenIndex(j) >= EdgePaletteLen
          /\ EdgeColorOf(i) = EdgeColorOf(j)

(***************************************************************************)
(* Properties of the graphrag data source (SpecFetch, SpecRecon).          *)
(***************************************************************************)
\* the values a run on real data returns to its caller
RealDataResults == {OutputPath, "None"}

PlaceholderUsed == "sample" \in console

\* C3 as stated: when no candidate file or directory gives a usable table
\* the fetch returns the fixed placeholder graph of 10 nodes and 15
\* pairwise-distinct edges, and the value returned to the caller of
\* create_*_visualization is flagged as placeholder data: it is none of the
\* values a run on real data returns.
C3_PlaceholderFlagged ==
    PlaceholderUsed =>
        /\ pc = "clean" =>
              /\ Len(df.rows) = 15
              /\ Cardinality({<<df.rows[i].source, df.rows[i].target>> :
                                 i \in DOMAIN df.rows}) = 15
              /\ Cardinality({df.rows[i].source : i \in DOMAIN df.rows}
                             \cup {df.rows[i].target : i \in DOMAIN df.rows})
                   = 10
        /\ pc = "done" => result \notin RealDataResults

SourceHeaders == {"source", "src", "source_id", "from", "from_id", "start"}

TargetHeaders ==
    {"target", "destination", "dst", "target_id", "to", "to_id", "end"}

\* a file that holds an edge table: readable, with rows, a source column
\* and a target column
UsableAt(p) ==
    /\ p \in DOMAIN files
    /\ files[p].readable
    /\ files[p].rows # <<>>
    /\ Range(files[p].columns) \cap SourceHeaders # {}
    /\ Range(files[p].columns) \cap TargetHeaders # {}

Fetched == pc = "clean" /\ ~PlaceholderUsed

\* the endpoints of the rows of a file, whatever its headers
EndpointsAt(p) ==
    LET s == CHOOSE c \in Range(files[p].columns) \cap SourceHeaders : TRUE
        t == CHOOSE c \in Range(files[p].columns) \cap TargetHeaders : TRUE
    IN [i \in DOMAIN files[p].rows |-> <<files[p].rows[i][s], files[p].rows[i][t]>>]

EndpointsFetched == [i \in DOMAIN df.rows |-> <<df.rows[i].source, df.rows[i].target>>]

\* C10 as stated: when several usable tables are available the returned
\* table is the concatenation of all of them: every usable table
\* contributes its rows.
C10_ConcatenatesAllUsable ==
    (Fetched /\ Cardinality({p \in DOMAIN files : UsableAt(p)}) >= 2) =>
        /\ Len(df.rows) >= Cardinality({p \in DOMAIN files : UsableAt(p)})
        /\ \A p \in DOMAIN files :
              UsableAt(p) => Range(EndpointsAt(p)) \subseteq Range(EndpointsFetched)

\* the parquet files _read_parquet_files takes from a directory
TakenFrom(d) ==
    {p \in DOMAIN files :
        /\ p[1] = d
        /\ p[3] = "parquet"
        /\ files[p].readable
        /\ \/ {"source", "target"} \subseteq Range(files[p].columns)
           \/ {"source", "destination"} \subseteq Range(files[p].columns)
           \/ {"source_id", "target_id"} \subseteq Range(files[p].columns)}

\* C10: the returned table holds the rows of the first usable candidate
\* file alone, in the order of the candidate list; tables are concatenated
\* only when no candidate file is usable: then the table is the
\* concatenation of the parquet files with (source, target), (source,
\* destination) or (source_id, target_id) columns of one candidate
\* directory, the first whose files give any row.
C10_FirstUsableFileAlone ==
    Fetched =>
        LET cands == {i \in DOMAIN possible_data_files :
                         UsableAt(possible_data_files[i])}
            head == possible_data_files[CHOOSE i \in cands :
                                           \A j \in cands : i <= j]
            rowsIn(d) == UNION {Range(EndpointsAt(p)) : p \in TakenFrom(d)}
            count(d) == Cardinality({<<p, i>> \in TakenFrom(d) \X (1..1) :
                                        i \in DOMAIN files[p].rows})
        IN IF cands # {}
           THEN EndpointsFetched = EndpointsAt(head)
           ELSE \E k \in DOMAIN possible_dirs :
                   /\ \A h \in 1..(k - 1) : rowsIn(possible_dirs[h]) = {}
                   /\ rowsIn(possible_dirs[k]) = Range(EndpointsFetched)
                   /\ count(possible_dirs[k]) = Len(df.rows)

C10_Witness ==
    /\ Fetched
    /\ Cardinality({i \in DOMAIN possible_data_files :
                       UsableAt(possible_data_files[i])}) >= 2
    /\ Len(df.rows) = 1

\* the file of the runs of SpecRecon and its headers
Candidate == files[possible_data_files[1]]

Given == Range(Candidate.columns)

Canonical == {"source", "target", "type"}

\* the synonym table of the statement
StatedSynonyms ==
    [source |-> {"src", "from", "start"},
     target |-> {"destination", "dst", "to", "end"},
     type   |-> {"relationship", "relation", "rel_type"}]

Accepted == pc = "clean" /\ "file" \in console

\* C9 as stated: every header that is a synonym in the fixed table is
\* renamed to its canonical name, headers are matched case-sensitively (a
\* canonical column is filled from a header of exactly that name or exactly
\* a synonym, the type else by the default), and every unmapped column is
\* kept and becomes an attribute of the edge.
C9_EverySynonymRenamed ==
    /\ Accepted =>
          /\ \A c \in Canonical : \A h \in Given \cap StatedSynonyms[c] :
                h \notin Range(df.columns)
          /\ \A c \in Canonical :
                df.rows[1][c] \in
                    {Str(h) : h \in {c} \cup StatedSynonyms[c]}
                        \cup (IF c = "type" THEN {Str("guanlian")} ELSE {})
          /\ \A h \in Given \ UNION {StatedSynonyms[c] : c \in Canonical} :
                h \in Range(df.columns) /\ df.rows[1][h] = Str(h)
    /\ (pc = "truncate" /\ "file" \in console) =>
          \A i \in DOMAIN G.edges :
              DOMAIN G.edges[i].data = Range(df.columns) \ {"source", "target"}

\* the synonyms of the code, in the order in which they are tried
CodedSynonyms ==
    [source |-> <<"src", "source_id", "from", "from_id", "start">>,
     target |-> <<"destination", "dst", "target_id", "to", "to_id", "end">>,
     type   |-> <<"relationship", "relation", "rel_type", "edge_type">>]

\* the header a canonical column is renamed from: the first synonym
\* present when the canonical header is absent; "" when there is none
RenamedFrom(c) ==
    LET present == {i \in DOMAIN CodedSynonyms[c] : CodedSynonyms[c][i] \in Given}
    IN IF c \in Given \/ present = {} THEN ""
       ELSE CodedSynonyms[c][CHOOSE i \in present : \A j \in present : i <= j]

\* the header the type is copied from when no type column results: the
\* first column that names a relation in any letter case; "" when none
CopiedFrom ==
    LET named == {i \in DOMAIN Candidate.columns :
                     Candidate.columns[i] \in {"Relation", "predicate"}}
    IN IF "type" \in Given \/ RenamedFrom("type") # "" \/ named = {} THEN ""
       ELSE Candidate.columns[CHOOSE i \in named : \A j \in named : i <= j]

\* C9: for each canonical name that is not a header already, the first
\* synonym present (in the order of the code's table, which also holds
\* target_id, to_id, source_id, from_id and edge_type) is renamed to it,
\* matched case-sensitively; further synonyms, and synonyms of a canonical
\* name that is a header already, stay as they are.  A missing type is then
\* copied from the first column whose header names a relation in any letter
\* case (the column stays), or set to the default.  Every column that is
\* not renamed is kept and becomes an attribute of the edge.
C9_FirstSynonymRenamed ==
    /\ Accepted =>
          LET renamed == {RenamedFrom(c) : c \in Canonical} \ {""}
          IN /\ Range(df.columns) = (Given \ renamed) \cup Canonical
             /\ \A h \in Given \ renamed : df.rows[1][h] = Str(h)
             /\ \A c \in Canonical \ Given :
                   df.rows[1][c] =
                       IF RenamedFrom(c) # "" THEN Str(RenamedFrom(c))
                       ELSE IF CopiedFrom # "" THEN Str(CopiedFrom)
                       ELSE Str("guanlian")
    /\ (pc = "truncate" /\ "file" \in console) =>
          \A i \in DOMAIN G.edges :
              DOMAIN G.edges[i].data = Range(df.columns) \ {"source", "target"}

C9_Witness ==
    /\ pc = "truncate"
    /\ "file" \in console
    /\ Candidate.columns = <<"src", "dst", "Relation">>
    /\ G.edges[1].data = [type |-> Str("Relation"), Relation |-> Str("Relation")]
    /\ G.edges[1].u = Str("src")

Incident(x) ==
    Cardinality({i \in DOMAIN G.edges : G.edges[i].u = x})
      + Cardinality({i \in DOMAIN G.edges : G.edges[i].v = x})

IncidentRange == {Incident(G.nodes[i]) : i \in DOMAIN G.nodes}

\* the size of a marker of degree deg, in hundredths: 8 + 15 * share in 3D,
\* 15 + 20 * share in 2D, share = (deg - min) / (max - min + 0.01)
SizeFor(deg) ==
    LET lo == CHOOSE a \in IncidentRange : \A b \in IncidentRange : a <= b
        hi == CHOOSE a \in IncidentRange : \A b \in IncidentRange : a >= b
    IN (IF dim = 3 THEN 800 ELSE 1500)
         + (((IF dim = 3 THEN 1500 ELSE 2000) * (deg - lo) * 100)
              \div ((hi - lo) * 100 + 1))

RECURSIVE SumOfDegrees(_)
SumOfDegrees(i) ==
    IF i = 0 THEN 0 ELSE scene.node_hover[i].connections + SumOfDegrees(i - 1)

\* C12: for every node of the rendered graph the degree shown in the
\* tooltip and used for the size is the number of edges of the graph after
\* truncation that leave the node plus the number that enter it (a
\* self-loop counts twice); the degrees sum to twice the edge count.
C12_DegreeIsIncidentEdges ==
    pc = "write" =>
        /\ \A i \in DOMAIN G.nodes :
              /\ scene.node_hover[i].connections = Incident(G.nodes[i])
              /\ scene.node_sizes[i] = SizeFor(Incident(G.nodes[i]))
        /\ SumOfDegrees(Len(G.nodes)) = 2 * Len(G.edges)

C12_Witness ==
    /\ pc = "write"
    /\ "truncated" \in console
    /\ \E i \in DOMAIN G.nodes :
          /\ \E e \in Range(G.edges) : e.u = G.nodes[i] /\ e.v = G.nodes[i]
          /\ scene.node_hover[i].connections = 2
    /\ \E i \in DOMAIN G.nodes : scene.node_hover[i].connections = 0

\* the visual range of the marker sizes in hundredths: 8..23 in 3D, 15..35 in 2D
MinSize == IF dim = 3 THEN 800 ELSE 1500

MaxSize == IF dim = 3 THEN 2300 ELSE 3500

\* C13: for every graph and every node the marker size assigned from the
\* degree lies within [minSize, maxSize] inclusive (8..23 in 3D, 15..35 in
\* 2D).
C13_SizeWithinRange ==
    pc = "write" =>
        \A i \in DOMAIN scene.node_sizes :
            MinSize <= scene.node_sizes[i] /\ scene.node_sizes[i] <= MaxSize

C13_Witness ==
    /\ pc = "write"
    /\ \E i, j \in DOMAIN scene.node_sizes :
          /\ scene.node_sizes[i] = MinSize
          /\ scene.node_sizes[j] > MinSize
          /\ scene.node_hover[j].connections >= 2

AllDegreesEqual ==
    /\ pc = "write"
    /\ G.nodes # <<>>
    /\ Cardinality(IncidentRange) = 1

\* C14 as stated: when all nodes have the same degree every node receives
\* the midpoint of the size range, (minSize + maxSize) / 2.
C14_EqualDegreesMidpoint ==
    AllDegreesEqual =>
        \A i \in DOMAIN scene.node_sizes :
            scene.node_sizes[i] = (MinSize + MaxSize) \div 2

\* C14: when all nodes have the same degree every node receives the least
\* size of the range (8 in 3D, 15 in 2D): the share (degree - min) / (max -
\* min + 0.01) is 0 / 0.01, so no division by zero occurs.
C14_EqualDegreesMinSize ==
    AllDegreesEqual =>
        \A i \in DOMAIN scene.node_sizes : scene.node_sizes[i] = MinSize

C14_Witness ==
    /\ AllDegreesEqual
    /\ Len(G.nodes) >= 2
    /\ Incident(G.nodes[1]) >= 1
    /\ scene.node_sizes[2] = MinSize

(***************************************************************************)
(* Properties of the 2D edge traces.                                       *)
(***************************************************************************)
Drawn2D == pc = "write" /\ dim = 2

\* C15 as stated: in 2D the two edges of an antiparallel pair A -> B and
\* B -> A get different control points, whatever their positions in the
\* iteration order of the edges.
C15_AntiparallelSeparated ==
    Drawn2D =>
        LET es == EdgesOf(G)
        IN \A i, j \in DOMAIN es :
              (i # j /\ es[i].u = es[j].v /\ es[i].v = es[j].u
                     /\ es[i].u # es[i].v)
                  => scene.edge_curves[i].control # scene.edge_curves[j].control

\* C16 as stated: for an edge of length zero the control point is the
\* midpoint, and the arrowhead is computed from a fixed vector of length 1,
\* so that its polygon is not collapsed to a single point.
C16_ZeroLengthArrowVisible ==
    Drawn2D =>
        \A i \in DOMAIN scene.edge_curves :
            LET c == scene.edge_curves[i]
                a == scene.edge_arrows[i]
            IN c.start = c.end =>
                  /\ c.control = c.start
                  /\ a.direction[1] * a.direction[1]
                       + a.direction[2] * a.direction[2] = 1000 * 1000
                  /\ Cardinality({<<a.x[k], a.y[k]>> : k \in 1..3}) > 1

(***************************************************************************)
(* Properties of the export.                                               *)
(***************************************************************************)
\* C17 as stated: the artifact is written atomically: at every point of an
\* export the file at the output path is absent, has its previous content
\* or is the complete artifact, and a write failure is reported to the
\* caller as an explicit I/O error, not as an ordinary return value.
C17_AtomicWrite ==
    /\ artifact.written => artifact.complete
    /\ (pc = "done" /\ "write failed" \in console)
          => result \notin {"None", OutputPath}

\* C18: the scene has exactly one marker per node of the rendered graph
\* and one edge geometry per edge of it (3D: one segment of three entries,
\* one hover label and three color entries per edge; 2D: one curve trace
\* and one arrow trace per edge, from the source's position to the
\* target's), and every per-node array has the length of the node count.
C18_SceneKeepsStructure ==
    pc = "write" =>
        LET n == Len(G.nodes)
            m == Len(G.edges)
            es == EdgesOf(G)
        IN /\ Len(scene.node_pos) = n
           /\ Len(scene.node_text) = n
           /\ Len(scene.node_colors) = n
           /\ Len(scene.node_sizes) = n
           /\ Len(scene.node_hover) = n
           /\ Len(scene.node_symbols) = IF dim = 3 THEN n ELSE 0
           /\ \A i \in 1..n :
                 /\ scene.node_hover[i].id = G.nodes[i]
                 /\ scene.node_pos[i] = pos[G.nodes[i]]
                 /\ Len(scene.node_pos[i]) = dim
           /\ {<<es[k].u, es[k].v>> : k \in DOMAIN es}
                 = {<<G.edges[k].u, G.edges[k].v>> : k \in DOMAIN G.edges}
           /\ IF dim = 3
              THEN /\ Len(scene.edge_points) = 3 * m
                   /\ Len(scene.edge_text) = m
                   /\ Len(scene.edge_colors) = 3 * m
                   /\ \A k \in 1..m :
                         /\ scene.edge_points[3 * k - 2] = pos[es[k].u]
                         /\ scene.edge_points[3 * k - 1] = pos[es[k].v]
                         /\ scene.edge_points[3 * k] = NonePoint
                         /\ scene.edge_colors[3 * k - 2] = scene.edge_colors[3 * k]
                         /\ scene.edge_colors[3 * k - 1] = scene.edge_colors[3 * k]
              ELSE /\ Len(scene.edge_curves) = m
                   /\ Len(scene.edge_arrows) = m
                   /\ \A k \in 1..m :
                         /\ scene.edge_curves[k].start = pos[es[k].u]
                         /\ scene.edge_curves[k].end = pos[es[k].v]
                         /\ scene.edge_arrows[k].x[2] = 1000 * pos[es[k].v][1]
                         /\ scene.edge_arrows[k].y[2] = 1000 * pos[es[k].v][2]

C18_Witness ==
    /\ pc = "write"
    /\ dim = 3
    /\ Len(G.nodes) = 3
    /\ Len(G.edges) = 2
    /\ \E e \in Range(G.edges) : e.u = e.v
    /\ Len(scene.edge_points) = 6
    /\ Len(scene.node_symbols) = 3

(***************************************************************************)
(* Properties of the node tooltips (SpecHover).                            *)
(***************************************************************************)
\* the attributes of the i-th node and the attribute lines of its tooltip
Held(i) == G.data[G.nodes[i]]

Lines(i) == scene.node_hover[i].attributes

EdgeEntries == SelectSeq(scene.legend, LAMBDA l : l.kind = "edge")

NodeEntries == SelectSeq(scene.legend, LAMBDA l : l.kind = "node")

\* C20 as stated: the legend has exactly one entry per distinct edge type
\* on a rendered edge and one per distinct node category on a rendered
\* node, in first-seen order, and every color used on a rendered edge or
\* node is the color of a legend entry.
C20_LegendCoversEveryColor ==
    pc = "write" =>
        LET n == Len(EdgesOf(G))
        IN /\ {EdgeEntries[k].name : k \in DOMAIN EdgeEntries}
                 = {DrawnType(i) : i \in 1..n}
           /\ Len(EdgeEntries) = Cardinality({DrawnType(i) : i \in 1..n})
           /\ \A i \in 1..n :
                 \E k \in DOMAIN EdgeEntries :
                     /\ EdgeEntries[k].name = DrawnType(i)
                     /\ EdgeEntries[k].color = EdgeColorOf(i)
           /\ \A i \in DOMAIN G.nodes :
                 \E k \in DOMAIN NodeEntries :
                     NodeEntries[k].color = scene.node_colors[i]

\* C20: the legend has exactly one entry per distinct edge type that takes
\* a palette color (3D: the non-empty strings; 2D: every value, the default
\* included) and one per distinct node category, the edge entries before
\* the node entries, each group in first-seen order; every color of a
\* rendered node and of a rendered edge with such a type is the color of
\* its legend entry, while a 3D edge without a named type is drawn in a
\* grey that has no legend entry.
C20_LegendOfPaletteCategories ==
    pc = "write" =>
        LET n == Len(EdgesOf(G))
            cats == {i \in 1..n : Categorised(i)}
        IN /\ Len(EdgeEntries) = Cardinality({DrawnType(i) : i \in cats})
           /\ \A i \in cats :
                 /\ EdgeEntries[FirstSeenIndex(i) + 1].name = DrawnType(i)
                 /\ EdgeEntries[FirstSeenIndex(i) + 1].color = EdgeColorOf(i)
           /\ \A i \in (1..n) \ cats :
                 /\ EdgeColorOf(i) = GreyEdge
                 /\ \A k \in DOMAIN scene.legend :
                       scene.legend[k].color # GreyEdge
           /\ Len(NodeEntries) = IF G.nodes = <<>> THEN 0 ELSE 1
           /\ \A i \in DOMAIN G.nodes :
                 /\ NodeEntries[1].name = Str("unknown")
                 /\ NodeEntries[1].color = scene.node_colors[i]
           /\ scene.legend = EdgeEntries \o NodeEntries

C20_Witness ==
    /\ pc = "write"
    /\ dim = 3
    /\ Len(EdgeEntries) = 2
    /\ Len(NodeEntries) = 1
    /\ \E i \in 1..Len(EdgesOf(G)) : ~Categorised(i) /\ EdgeColorOf(i) = GreyEdge
    /\ EdgeEntries[1].name # DrawnType(1)

(***************************************************************************)
(* Colors of the interactive graph (graph_visualizer.py).  A hex color is  *)
(* the sequence of its six hexadecimal digits (0..15); the floats of       *)
(* colorsys are fixed-point numbers with ColorUnit standing for 1.0, and   *)
(* a factor is given in tenths.                                            *)
(***************************************************************************)
ColorUnit == 255 * 40

\* colorsys.rgb_to_hsv
RgbToHsv(rgb) ==
    LET r == rgb[1]
        g == rgb[2]
        b == rgb[3]
        maxc == Max(r, Max(g, b))
        minc == Min(r, Min(g, b))
        rangec == maxc - minc
        rc == ((maxc - r) * ColorUnit) \div rangec
        gc == ((maxc - g) * ColorUnit) \div rangec
        bc == ((maxc - b) * ColorUnit) \div rangec
        h == IF r = maxc THEN bc - gc
             ELSE IF g = maxc THEN 2 * ColorUnit + rc - bc
             ELSE 4 * ColorUnit + gc - rc
    IN IF minc = maxc THEN <<0, 0, maxc>>
       ELSE <<(h \div 6) % ColorUnit, (rangec * ColorUnit) \div maxc, maxc>>

\* colorsys.hsv_to_rgb
HsvToRgb(hsv) ==
    LET h == hsv[1]
        s == hsv[2]
        v == hsv[3]
        i == (h * 6) \div ColorUnit
        f == h * 6 - i * ColorUnit
        p == (v * (ColorUnit - s)) \div ColorUnit
        q == (v * (ColorUnit - (s * f) \div ColorUnit)) \div ColorUnit
        t == (v * (ColorUnit - (s * (ColorUnit - f)) \div ColorUnit))
                 \div ColorUnit
    IN IF s = 0 THEN <<v, v, v>>
       ELSE CASE i % 6 = 0 -> <<v, t, p>>
              [] i % 6 = 1 -> <<q, v, p>>
              [] i % 6 = 2 -> <<p, v, t>>
              [] i % 6 = 3 -> <<p, q, v>>
              [] i % 6 = 4 -> <<t, p, v>>
              [] i % 6 = 5 -> <<v, p, q>>

\* "#{:02x}{:02x}{:02x}".format(int(r * 255), int(g * 255), int(b * 255)):
\* int() truncates towards zero, {:02x} pads to two characters and never
\* cuts: a channel above 255 prints three digits, a negative one a minus
\* sign (written -1 here) before its digits
FormatHex(rgb) ==
    LET int(c) == IF c >= 0 THEN (c * 255) \div ColorUnit
                  ELSE 0 - (((0 - c) * 255) \div ColorUnit)
        digits(n) == IF n < 16 THEN <<n>>
                     ELSE IF n < 256 THEN <<n \div 16, n % 16>>
                     ELSE <<n \div 256, (n \div 16) % 16, n % 16>>
        x02(n) == IF n < 0 THEN <<-1>> \o digits(0 - n)
                  ELSE IF n < 16 THEN <<0, n>>
                  ELSE digits(n)
    IN x02(int(rgb[1])) \o x02(int(rgb[2])) \o x02(int(rgb[3]))

\* the bug of converting the scaled brightness without clamping it
AdjustColorUnclamped(hex, tenths) ==
    LET rgb == [c \in 1..3 |->
                   (16 * hex[2 * c - 1] + hex[2 * c])
                       * (ColorUnit \div 255)]
        hsv == RgbToHsv(rgb)
        new_v == (hsv[3] * (10 + tenths)) \div 10
    IN FormatHex(HsvToRgb(<<hsv[1], hsv[2], new_v>>))

\* GraphVisualizer._adjust_color
AdjustColor(hex, tenths) ==
    LET rgb == [c \in 1..3 |->
                   (16 * hex[2 * c - 1] + hex[2 * c])
                       * (ColorUnit \div 255)]
        hsv == RgbToHsv(rgb)
        new_v == Max(0, Min(ColorUnit, (hsv[3] * (10 + tenths)) \div 10))
    IN FormatHex(HsvToRgb(<<hsv[1], hsv[2], new_v>>))

\* GraphVisualizer._generate_color_palette
GenerateColorPalette(n) ==
    [j \in 1..n |->
        LET i == j - 1
            hue == ((i * 618 * ColorUnit) \div 1000) % ColorUnit
            saturation == (6 * ColorUnit) \div 10 + (i % 3) * (ColorUnit \div 10)
            value == (85 * ColorUnit) \div 100 - (i % 3) * (ColorUnit \div 10)
        IN FormatHex(HsvToRgb(<<hue, saturation, value>>))]

(***************************************************************************)
(* GraphVisualizer.create_interactive_graph (graph_visualizer.py), run     *)
(* with the variables of a run: delivered holds the records the database   *)
(* returns, [nodes, relationships]; G the DiGraph, its field data the      *)
(* attribute dictionary of every node (keys in insertion order); scene     *)
(* the pyvis network with node_types and color_map; artifact the HTML      *)
(* file.  Labels are sequences of characters, since the legend compares    *)
(* them by prefix.  An exception leaves the method: result = "raised".     *)
(***************************************************************************)
MaxNodes == 2          \* node records the database returns
MaxRelationships == 2  \* relationship records the database returns

\* attrs.get(key, default) on an attribute dictionary
AttrGet(attrs, key, default) ==
    LET at == {i \in DOMAIN attrs : attrs[i].key = key}
    IN IF at = {} THEN default ELSE attrs[CHOOSE i \in at : TRUE].value

\* GraphVisualizer._create_networkx_graph
CreateNetworkxGraph(nodes, relationships) ==
    LET named(props) == \E i \in DOMAIN props : props[i].key = "name"
        usable(props) == {i \in DOMAIN props :
                             /\ props[i].key # "embedding"
                             /\ props[i].value.k = "str"
                             /\ props[i].value.len < 100}
        firstOf(S) == CHOOSE i \in S : \A j \in S : i <= j
        withName(n) ==
            IF named(n.props) THEN n.props
            ELSE IF usable(n.props) # {}
            THEN Append(n.props,
                        [key |-> "name",
                         value |-> n.props[firstOf(usable(n.props))].value])
            ELSE Append(n.props,
                        [key |-> "name",
                         value |-> [k |-> "str", v |-> <<"Node-", n.id>>,
                                    len |-> 7]])
        \* ";".join(node_labels)
        joined(labels) ==
            Flatten([i \in DOMAIN labels |->
                       IF i = 1 THEN labels[i] ELSE <<";">> \o labels[i]])
        node_attrs(n) ==
            Append(withName(n), [key |-> "labels", value |-> joined(n.labels)])
        rows == [i \in DOMAIN relationships |->
                   [source |-> relationships[i].n, target |-> relationships[i].m,
                    attrs |-> DictUpdate(relationships[i].props,
                                         [type |-> relationships[i].type])]]
        AddRels[k \in 0..Len(rows)] ==
            IF k = 0
            THEN [nodes |-> [i \in DOMAIN nodes |-> nodes[i].id], edges |-> <<>>]
            ELSE AddEdge(AddRels[k - 1], rows[k].source, rows[k].target,
                         rows[k].attrs)
        g == AddRels[Len(rows)]
    IN [nodes |-> g.nodes, edges |-> g.edges,
        data |-> [x \in Range(g.nodes) |->
                    node_attrs(nodes[CHOOSE i \in DOMAIN nodes :
                                         nodes[i].id = x])]]

Raise(message) ==
    /\ result' = "raised"
    /\ console' = console \cup {message}
    /\ pc' = "done"

\* _fetch_graph_data and _create_networkx_graph; a failing query raises
CreateGraph ==
    /\ pc = "query"
    /\ \/ /\ G' = CreateNetworkxGraph(delivered.nodes, delivered.relationships)
          /\ pc' = "network"
          /\ UNCHANGED <<result, console>>
       \/ Raise("query failed") /\ UNCHANGED G
    /\ UNCHANGED appVars
    /\ UNCHANGED <<dim, limit, delivered, df, pos, scene, artifact, hashSeed,
                   first, files>>

\* node_types, color_map, nt.add_node for every node, nt.add_edge for
\* every edge
AddToNetwork ==
    /\ pc = "network"
    /\ LET labelsOf(x) == AttrGet(G.data[x], "labels", <<>>)
           \* labels.split(';')[0] if labels else 'Unknown'
           primary_label(x) ==
               LET labels == labelsOf(x)
                   at == {i \in DOMAIN labels : labels[i] = ";"}
               IN IF labels = <<>> THEN <<"U", "n", "k", "n", "o", "w", "n">>
                  ELSE IF at = {} THEN labels
                  ELSE SubSeq(labels, 1,
                              (CHOOSE i \in at : \A j \in at : i <= j) - 1)
           types[k \in 0..Len(G.nodes)] ==
               IF k = 0 THEN <<>>
               ELSE AppendNew(types[k - 1], primary_label(G.nodes[k]))
           node_types == types[Len(G.nodes)]
           colors == GenerateColorPalette(Len(node_types))
           color_map == [i \in DOMAIN node_types |->
                            [key |-> node_types[i], color |-> colors[i]]]
           shown(a) == /\ a.key \notin {"name", "labels", "embedding"}
                       /\ a.value.len > 0
                       /\ a.value.len < 100
           vis_node(x) ==
               LET background == Lookup(color_map, primary_label(x))
               IN [id |-> x,
                   label |-> AttrGet(G.data[x], "name", <<"Node-", x>>),
                   primary_label |-> primary_label(x),
                   title |-> SelectSeq(G.data[x], shown),
                   background |-> background,
                   border |-> AdjustColor(background, -2),
                   highlight |-> [background |-> AdjustColor(background, 1),
                                  border |-> AdjustColor(background, -1)]]
           edges == EdgesOf(G)
       IN scene' = [node_types |-> node_types,
                    color_map |-> color_map,
                    nodes |-> [i \in DOMAIN G.nodes |-> vis_node(G.nodes[i])],
                    edges |-> [i \in DOMAIN edges |->
                                 [u |-> edges[i].u, v |-> edges[i].v,
                                  label |-> IF "type" \in DOMAIN edges[i].data
                                            THEN edges[i].data.type ELSE ""]]]
    /\ pc' = "save"
    /\ UNCHANGED appVars
    /\ UNCHANGED <<dim, limit, delivered, df, G, pos, result, artifact,
                   console, hashSeed, first, files>>

\* nt.save_graph(output_path); a failing write raises
SaveGraph ==
    /\ pc = "save"
    /\ \/ /\ artifact' = [written |-> TRUE, complete |-> TRUE,
                          content |-> [network |-> scene, stats |-> <<>>,
                                       legend |-> <<>>]]
          /\ pc' = "enhance"
          /\ UNCHANGED <<result, console>>
       \/ Raise("save failed") /\ UNCHANGED artifact
    /\ UNCHANGED appVars
    /\ UNCHANGED <<dim, limit, delivered, df, G, pos, scene, hashSeed, first,
                   files>>

\* _enhance_html_visualization: the stats cards and the legend are put
\* into the saved file; its own exceptions are logged and dropped
EnhanceHtml ==
    /\ pc = "enhance"
    /\ LET startswith(str, prefix) ==
               /\ Len(prefix) <= Len(str)
               /\ SubSeq(str, 1, Len(prefix)) = prefix
           count(label) ==
               Cardinality({i \in DOMAIN G.nodes :
                   startswith(AttrGet(G.data[G.nodes[i]], "labels", <<>>),
                              label)})
           stats == [nodes |-> NumberOfNodes(G), edges |-> Len(G.edges),
                     types |-> Len(scene.node_types)]
           legend == [i \in DOMAIN scene.node_types |->
                        [label |-> scene.node_types[i],
                         color |-> Lookup(scene.color_map, scene.node_types[i]),
                         count |-> count(scene.node_types[i])]]
       IN \/ /\ artifact' = [artifact EXCEPT !.content.stats = stats,
                                             !.content.legend = legend]
             /\ UNCHANGED console
          \/ /\ console' = console \cup {"enhance failed"}
             /\ UNCHANGED artifact
    /\ result' = OutputPath
    /\ pc' = "done"
    /\ UNCHANGED appVars
    /\ UNCHANGED <<dim, limit, delivered, df, G, pos, scene, hashSeed, first,
                   files>>

NextInteractive == CreateGraph \/ AddToNetwork \/ SaveGraph \/ EnhanceHtml

\* the records the database may return: nodes with labels and properties,
\* relationships from the first node to the first or the last one, with a
\* type and properties
InitInteractive ==
    /\ \E ns \in SeqsUpTo({[labels |-> <<>>, props |-> <<>>],
                           [labels |-> << <<"A">> >>,
                            props |-> <<[key |-> "title",
                                         value |-> [k |-> "str", v |-> "short",
                                                    len |-> 5]]>>],
                           [labels |-> << <<"A", "B">> >>, props |-> <<>>],
                           [labels |-> << <<"B">>, <<"A">> >>, props |-> <<>>]},
                          MaxNodes) :
          LET nodes == [i \in DOMAIN ns |->
                          [id |-> <<"n", i>>, labels |-> ns[i].labels,
                           props |-> ns[i].props]]
              ids == {nodes[i].id : i \in DOMAIN nodes \cap {1, Len(nodes)}}
              kinds == {[type |-> Str("KNOWS"), props |-> [since |-> Num("2020")]],
                        [type |-> Str("LIKES"), props |-> <<>>],
                        [type |-> Str("LIKES"), props |-> [since |-> Num("2021")]]}
          IN \E rels \in SeqsUpTo({[n |-> <<"n", 1>>, m |-> m, type |-> kd.type,
                                    props |-> kd.props] : m \in ids, kd \in kinds},
                                  MaxRelationships) :
                 delivered = [nodes |-> nodes, relationships |-> rels]
    /\ pc = "query"
    /\ dim = 2
    /\ limit = MaxLimit
    /\ hashSeed = 0
    /\ df = EmptyFrame
    /\ G = EmptyGraph
    /\ pos = <<>>
    /\ scene = NoScene
    /\ result = "pending"
    /\ artifact = NoFile
    /\ console = {}
    /\ first = NoRun
    /\ files = NoFiles
    /\ AppIdle

SpecInteractive == InitInteractive /\ [][NextInteractive]_vars

(***************************************************************************)
(* Properties of the graph built from database records (SpecInteractive).  *)
(***************************************************************************)
\* the records written for the pair of edge e, in the order written
WrittenFor(e) ==
    SelectSeq(delivered.relationships, LAMBDA r : r.n = e.u /\ r.m = e.v)

\* C21 as stated: records with the same (source, target) collapse to a
\* single directed edge whose attributes are those of the last record
\* written.
C21_LastRecordAttributes ==
    pc = "network" =>
        /\ \A i, j \in DOMAIN G.edges :
              G.edges[i].u = G.edges[j].u /\ G.edges[i].v = G.edges[j].v
                  => i = j
        /\ \A i \in DOMAIN G.edges :
              LET written == WrittenFor(G.edges[i])
                  last == written[Len(written)]
              IN G.edges[i].data = DictUpdate(last.props, [type |-> last.type])

\* C21: records with the same (source, target) collapse to a single
\* directed edge; each of its attributes has the value of the last record
\* that carries that attribute, so the type is the last record's, and an
\* attribute the last record lacks keeps the value an earlier record wrote.
C21_LastWritePerAttribute ==
    pc = "network" =>
        /\ \A i, j \in DOMAIN G.edges :
              G.edges[i].u = G.edges[j].u /\ G.edges[i].v = G.edges[j].v
                  => i = j
        /\ \A k \in DOMAIN delivered.relationships :
              \E i \in DOMAIN G.edges :
                  /\ G.edges[i].u = delivered.relationships[k].n
                  /\ G.edges[i].v = delivered.relationships[k].m
        /\ \A i \in DOMAIN G.edges :
              LET written == WrittenFor(G.edges[i])
                  data == G.edges[i].data
                  carriers(key) == {k \in DOMAIN written :
                                       key = "type" \/ key \in DOMAIN written[k].props}
                  lastOf(S) == CHOOSE k \in S : \A l \in S : l <= k
              IN /\ written # <<>>
                 /\ DOMAIN data = {"type"} \cup
                        UNION {DOMAIN written[k].props : k \in DOMAIN written}
                 /\ data.type = written[Len(written)].type
                 /\ \A key \in DOMAIN data \ {"type"} :
                       data[key] = written[lastOf(carriers(key))].props[key]

C21_Witness ==
    /\ pc = "network"
    /\ Len(G.edges) = 1
    /\ Len(WrittenFor(G.edges[1])) = 2
    /\ WrittenFor(G.edges[1])[1].type # WrittenFor(G.edges[1])[2].type
    /\ "since" \in DOMAIN WrittenFor(G.edges[1])[1].props
    /\ "since" \notin DOMAIN WrittenFor(G.edges[1])[2].props
    /\ G.edges[1].data.since = Num("2020")

(***************************************************************************)
(* Idempotence of the cleaning (SpecClean).                                *)
(***************************************************************************)
\* the delivered table has no null endpoint and no (source, target) twice
UniqueAndNonNull ==
    /\ delivered.rows # <<>>
    /\ ValidAt = DOMAIN delivered.rows
    /\ \A i, j \in DOMAIN delivered.rows :
          /\ delivered.rows[i].source = delivered.rows[j].source
          /\ delivered.rows[i].target = delivered.rows[j].target
          => i = j

\* C22 as stated: a table whose (source, target) pairs are unique and
\* non-null comes out of cleaning with the same rows (the same endpoints as
\* printed, the same attributes) in the same order, and cleaning an already
\* cleaned table changes nothing.
C22_UniqueInputUnchanged ==
    pc = "build" =>
        /\ UniqueAndNonNull =>
              /\ df.columns = delivered.columns
              /\ Len(df.rows) = Len(delivered.rows)
              /\ \A i \in DOMAIN df.rows :
                    /\ PairOf(df.rows[i]) = PairOf(delivered.rows[i])
                    /\ df.rows[i].type = delivered.rows[i].type
        /\ CleanDataframe(df) = df

\* C22: a table whose endpoints are all strings and whose (source, target)
\* pairs are unique comes out of cleaning with the same rows in the same
\* order and the same attributes, no type being defaulted; an endpoint that
\* is not a string comes out as its printed form, and rows whose pairs are
\* equal once printed collapse to the first; cleaning an already cleaned
\* table changes nothing.
C22_StringInputUnchanged ==
    pc = "build" =>
        /\ (/\ UniqueAndNonNull
            /\ \A i \in DOMAIN delivered.rows :
                  delivered.rows[i].source.k = "str" /\ delivered.rows[i].target.k = "str")
               => df = delivered
        /\ UniqueAndNonNull =>
              /\ Len(df.rows) <= Len(delivered.rows)
              /\ \A i \in DOMAIN df.rows :
                    \E j \in DOMAIN delivered.rows :
                        df.rows[i] = [delivered.rows[j] EXCEPT
                                         !.source = AsTypeStr(@),
                                         !.target = AsTypeStr(@)]
        /\ CleanDataframe(df) = df

C22_Witness ==
    /\ pc = "build"
    /\ UniqueAndNonNull
    /\ Len(delivered.rows) = 2
    /\ \A i \in DOMAIN delivered.rows :
          delivered.rows[i].source.k = "str" /\ delivered.rows[i].target.k = "str"
    /\ \E i \in DOMAIN delivered.rows : IsNull(delivered.rows[i].type)
    /\ df = delivered

(***************************************************************************)
(* Calls of GraphVisualizer._adjust_color on any color and factor.         *)
(***************************************************************************)
MaxFactor == 30       \* factors from -MaxFactor to MaxFactor tenths

\* no visualization run is under way
RunIdle ==
    /\ pc = "idle"
    /\ dim = 2
    /\ limit = MaxLimit
    /\ hashSeed = 0
    /\ delivered = EmptyFrame
    /\ df = EmptyFrame
    /\ G = EmptyGraph
    /\ pos = <<>>
    /\ scene = NoScene
    /\ result = "pending"
    /\ artifact = NoFile
    /\ console = {}
    /\ first = NoRun
    /\ files = NoFiles

\* the valid colors passed in: every channel dark, middle or bright
InitAdjust ==
    /\ RunIdle
    /\ \E channels \in [1..3 -> {0, 1, 86, 128, 254, 255}] :
          hex_color = [i \in 1..6 |->
                          IF i % 2 = 1 THEN channels[(i + 1) \div 2] \div 16
                          ELSE channels[i \div 2] % 16]
    /\ factor \in (0 - MaxFactor)..MaxFactor
    /\ adjusted = <<>>
    /\ step = "idle"
    /\ events = <<>>
    /\ inputs = <<>>
    /\ driver = "none"
    /\ default_index_manager = "None"
    /\ default_kg_builder = "None"
    /\ constructed = [index_manager |-> 0, kg_builder |-> 0]
    /\ prompt_template = [vector_rag |-> "None", vector_cypher_rag |-> "None"]
    /\ call = [op |-> "none"]

\* self._adjust_color(hex_color, factor) returns
Adjust ==
    /\ adjusted = <<>>
    /\ hex_color # <<>>
    /\ adjusted' = AdjustColor(hex_color, factor)
    /\ UNCHANGED <<driver, default_index_manager, default_kg_builder,
                   constructed, prompt_template, call>>
    /\ UNCHANGED <<hex_color, factor, step, events, inputs>>
    /\ UNCHANGED runVars

SpecAdjust == InitAdjust /\ [][Adjust]_vars

\* C23: for every valid 6-digit hex color and every factor, below -1 and
\* above 1 included, _adjust_color returns six hexadecimal digits, so that
\* each of the three channels lies in 0..255.
C23_AdjustedColorValid ==
    adjusted # <<>> =>
        /\ Len(adjusted) = 6
        /\ \A i \in 1..6 : adjusted[i] \in 0..15
        /\ \A c \in 1..3 : 16 * adjusted[2 * c - 1] + adjusted[2 * c] \in 0..255

C23_Witness ==
    /\ adjusted # <<>>
    /\ factor > 10
    /\ hex_color = <<8, 0, 15, 15, 0, 1>>
    /\ adjusted[3] = 15 /\ adjusted[4] = 15

(***************************************************************************)
(* Runs whose truncated graph is empty (Spec).                             *)
(***************************************************************************)
\* C24 as stated: create_3d_visualization and create_2d_visualization
\* return an output path only for a graph with at least one node; for
\* every limit, limit = 0 included, a run whose truncated graph has no node
\* returns None and writes no artifact.
C24_EmptyGraphReturnsNone ==
    /\ result = OutputPath => NumberOfNodes(G) >= 1
    /\ (pc \in {"trace", "write", "writing"} /\ NumberOfNodes(G) = 0)
           => ~artifact.written
    /\ (pc = "done" /\ NumberOfNodes(G) = 0)
           => result = "None" /\ ~artifact.written

(***************************************************************************)
(* graphrag_mode (graphrag_main.py): the index subprocess, the two         *)
(* visualizations and the query loop.  The word "<tuichu>" stands for the  *)
(* two-character Chinese word for "exit", which has no upper case.         *)
(***************************************************************************)
MaxQueries == 3       \* questions answered by the query loop

\* the bug of going on whatever the index subprocess returned
RunIndexUnchecked ==
    /\ step = "start"
    /\ \E outcome \in {"index exited 0", "index exited 1",
                       "index failed to start"} :
          /\ events' = <<"files processed", outcome>>
          /\ step' = "3d"
    /\ UNCHANGED <<driver, default_index_manager, default_kg_builder,
                   constructed, prompt_template, call>>
    /\ UNCHANGED <<hex_color, factor, adjusted, inputs>>
    /\ UNCHANGED runVars

\* graphrag_mode up to the end of the index subprocess: the early returns,
\* process_files, setup_workspace (a failure is only warned about), the
\* subprocess; without return code 0 the manual commands are printed
RunIndex ==
    /\ step = "start"
    /\ \/ \E early \in {"no text files", "no indexer"} :
             /\ events' = <<early>>
             /\ step' = "returned"
       \/ \E setup \in {"workspace set up", "workspace not set up"},
             outcome \in {"index exited 0", "index exited 1",
                          "index failed to start"} :
             IF outcome = "index exited 0"
             THEN /\ events' = <<"files processed", setup, outcome>>
                  /\ step' = "3d"
             ELSE /\ events' = <<"files processed", setup, outcome,
                                 "manual commands">>
                  /\ step' = "returned"
    /\ UNCHANGED <<driver, default_index_manager, default_kg_builder,
                   constructed, prompt_template, call>>
    /\ UNCHANGED <<hex_color, factor, adjusted, inputs>>
    /\ UNCHANGED runVars

\* create_3d_visualization, then create_2d_visualization; what they return
\* (a path or None) is only reported
Visualize ==
    /\ step \in {"3d", "2d"}
    /\ events' = Append(events, step)
    /\ step' = IF step = "3d" THEN "2d" ELSE "loop"
    /\ UNCHANGED <<driver, default_index_manager, default_kg_builder,
                   constructed, prompt_template, call>>
    /\ UNCHANGED <<hex_color, factor, adjusted, inputs>>
    /\ UNCHANGED runVars

\* one round of "while True": input(), the test of query.lower(), the
\* global and the local query
ReadQuery ==
    /\ step = "loop"
    /\ \E query \in {"exit", "EXIT", "Quit", "<tuichu>", " exit", "what is x"} :
          LET lower == CASE query = "EXIT" -> "exit"
                         [] query = "Quit" -> "quit"
                         [] OTHER -> query
          IN /\ inputs' = Append(inputs, query)
             /\ IF lower \in {"exit", "quit", "<tuichu>"}
                THEN /\ events' = Append(events, "goodbye")
                     /\ step' = "returned"
                ELSE /\ Len(SelectSeq(events, LAMBDA e : e = "answered"))
                            < MaxQueries
                     /\ events' = Append(events, "answered")
                     /\ step' = "loop"
    /\ UNCHANGED <<driver, default_index_manager, default_kg_builder,
                   constructed, prompt_template, call>>
    /\ UNCHANGED <<hex_color, factor, adjusted>>
    /\ UNCHANGED runVars

NextMode == RunIndex \/ Visualize \/ ReadQuery

InitMode ==
    /\ RunIdle
    /\ step = "start"
    /\ events = <<>>
    /\ inputs = <<>>
    /\ hex_color = <<>>
    /\ factor = 0
    /\ adjusted = <<>>
    /\ driver = "none"
    /\ default_index_manager = "None"
    /\ default_kg_builder = "None"
    /\ constructed = [index_manager |-> 0, kg_builder |-> 0]
    /\ prompt_template = [vector_rag |-> "None", vector_cypher_rag |-> "None"]
    /\ call = [op |-> "none"]

SpecMode == InitMode /\ [][NextMode]_vars

\* the positions of an event in the order of events
At(event) == {i \in DOMAIN events : events[i] = event}

\* the inputs that are equal, whatever the case, to exit, quit or the
\* Chinese word
ExitWords == {"exit", "EXIT", "Quit", "<tuichu>"}

\* C25: the 3D visualization, then the 2D visualization, then the query
\* loop are started only after the index subprocess has exited with return
\* code 0; if the subprocess fails to start or exits non-zero none of them
\* runs and the manual query commands are printed; the query loop ends on
\* the first input equal, whatever the case, to exit, quit or the Chinese
\* word.
C25_VisualizeAndQueryAfterIndex ==
    /\ \A i \in At("3d") : \E j \in At("index exited 0") : j < i
    /\ \A i \in At("2d") : \E j \in At("3d") : j < i
    /\ \A i \in At("answered") \cup At("goodbye") : \E j \in At("2d") : j < i
    /\ inputs # <<>> => At("2d") # {}
    /\ step \in {"3d", "2d", "loop"} => At("index exited 0") # {}
    /\ Cardinality(At("3d")) <= 1 /\ Cardinality(At("2d")) <= 1
    /\ (At("index exited 1") \cup At("index failed to start") # {}) =>
          /\ step = "returned"
          /\ inputs = <<>>
          /\ At("3d") \cup At("2d") \cup At("answered") \cup At("goodbye") = {}
          /\ events[Len(events)] = "manual commands"
    /\ \A i \in DOMAIN inputs :
          inputs[i] \in ExitWords <=> (i = Len(inputs) /\ step = "returned")
    /\ (step = "returned" /\ inputs # <<>>) => events[Len(events)] = "goodbye"

C25_Witness ==
    /\ step = "returned"
    /\ inputs = <<" exit", "what is x", "Quit">>
    /\ SelectSeq(events, LAMBDA e : e \in {"index exited 0", "3d", "2d",
                                            "answered", "goodbye"})
           = <<"index exited 0", "3d", "2d", "answered", "answered", "goodbye">>

(***************************************************************************)
(* The shared components of main.py: the Neo4jConnector, the default       *)
(* IndexManager and KnowledgeGraphBuilder, the GraphRAGSystem.  Each       *)
(* action is one call from the outside; call keeps what the call was       *)
(* given and what it did.                                                  *)
(***************************************************************************)
\* Neo4jConnector.connect: a new driver, or the exception of the driver
Connect ==
    /\ \/ driver' = "open" /\ call' = [op |-> "connect", raised |-> FALSE]
       \/ UNCHANGED driver /\ call' = [op |-> "connect", raised |-> TRUE]
    /\ UNCHANGED <<default_index_manager, default_kg_builder, constructed,
                   prompt_template>>
    /\ UNCHANGED <<hex_color, factor, adjusted, step, events, inputs>>
    /\ UNCHANGED runVars

\* Neo4jConnector.close: the driver is closed and stays in self.driver
Close ==
    /\ driver' = IF driver # "none" THEN "closed" ELSE driver
    /\ call' = [op |-> "close", raised |-> FALSE]
    /\ UNCHANGED <<default_index_manager, default_kg_builder, constructed,
                   prompt_template>>
    /\ UNCHANGED <<hex_color, factor, adjusted, step, events, inputs>>
    /\ UNCHANGED runVars

\* Neo4jConnector.execute_query: "if not self.driver: self.connect()", then
\* the query goes through self.driver; a closed driver raises
ExecuteQuery ==
    /\ \/ /\ driver = "none"
          /\ \/ /\ driver' = "open"
                /\ \E failed \in BOOLEAN :
                      call' = [op |-> "execute_query", through |-> "open",
                               raised |-> failed]
             \/ /\ UNCHANGED driver
                /\ call' = [op |-> "execute_query", through |-> "none",
                            raised |-> TRUE]
       \/ /\ driver # "none"
          /\ UNCHANGED driver
          /\ \E failed \in BOOLEAN :
                call' = [op |-> "execute_query", through |-> driver,
                         raised |-> failed \/ driver = "closed"]
    /\ UNCHANGED <<default_index_manager, default_kg_builder, constructed,
                   prompt_template>>
    /\ UNCHANGED <<hex_color, factor, adjusted, step, events, inputs>>
    /\ UNCHANGED runVars

\* get_index_manager(mode)
GetIndexManager ==
    /\ \E mode \in {"neo4j", "graphrag"} :
          /\ IF default_index_manager = "None"
             THEN /\ default_index_manager' = mode
                  /\ constructed' = [constructed EXCEPT !.index_manager = @ + 1]
             ELSE UNCHANGED <<default_index_manager, constructed>>
          /\ call' = [op |-> "get_index_manager", mode |-> mode,
                      returned |-> default_index_manager']
    /\ UNCHANGED <<driver, default_kg_builder, prompt_template>>
    /\ UNCHANGED <<hex_color, factor, adjusted, step, events, inputs>>
    /\ UNCHANGED runVars

\* get_kg_builder(from_pdf)
GetKgBuilder ==
    /\ \E from_pdf \in {"True", "False"} :
          /\ IF default_kg_builder = "None"
             THEN /\ default_kg_builder' = from_pdf
                  /\ constructed' = [constructed EXCEPT !.kg_builder = @ + 1]
             ELSE UNCHANGED <<default_kg_builder, constructed>>
          /\ call' = [op |-> "get_kg_builder", from_pdf |-> from_pdf,
                      returned |-> default_kg_builder']
    /\ UNCHANGED <<driver, default_index_manager, prompt_template>>
    /\ UNCHANGED <<hex_color, factor, adjusted, step, events, inputs>>
    /\ UNCHANGED runVars

\* the bug of building the index although the workspace was not initialized
CreateAllIndexesRegardless ==
    /\ default_index_manager = "graphrag"
    /\ \E init, index \in BOOLEAN :
          call' = [op |-> "create_all_indexes", mode |-> "graphrag",
                   root_dir |-> "./ragtest",
                   steps |-> <<[cmd |-> "makedirs", ok |-> TRUE],
                               [cmd |-> "graphrag init", ok |-> init],
                               [cmd |-> "graphrag index", ok |-> index]>>,
                   raised |-> ~(init /\ index)]
    /\ UNCHANGED <<driver, default_index_manager, default_kg_builder,
                   constructed, prompt_template>>
    /\ UNCHANGED <<hex_color, factor, adjusted, step, events, inputs>>
    /\ UNCHANGED runVars

\* IndexManager.create_all_indexes(root_dir) on the shared manager, with
\* create_vector_index, create_fulltext_index, setup_graphrag_workspace and
\* run_graphrag_index; every step may fail
CreateAllIndexes ==
    /\ default_index_manager # "None"
    /\ \E root_dir \in {"None", "", "./ragtest"}, first_ok, second_ok, dir_ok \in BOOLEAN :
          LET run(cmd, ok) == [cmd |-> cmd, ok |-> ok]
              steps ==
                  IF default_index_manager = "neo4j"
                  THEN IF first_ok
                       THEN <<run("vector index", TRUE),
                              run("fulltext index", second_ok)>>
                       ELSE <<run("vector index", FALSE)>>
                  ELSE IF root_dir \in {"None", ""} THEN <<>>
                  ELSE IF ~dir_ok THEN <<run("makedirs", FALSE)>>
                  ELSE IF first_ok
                       THEN <<run("makedirs", TRUE), run("graphrag init", TRUE),
                              run("graphrag index", second_ok)>>
                       ELSE <<run("makedirs", TRUE), run("graphrag init", FALSE)>>
          IN call' = [op |-> "create_all_indexes",
                      mode |-> default_index_manager,
                      root_dir |-> root_dir,
                      steps |-> steps,
                      raised |-> \/ steps = <<>>
                                 \/ \E i \in DOMAIN steps : ~steps[i].ok]
    /\ UNCHANGED <<driver, default_index_manager, default_kg_builder,
                   constructed, prompt_template>>
    /\ UNCHANGED <<hex_color, factor, adjusted, step, events, inputs>>
    /\ UNCHANGED runVars

\* GraphRAGSystem.search(query, use_graph, template_name=...), with
\* TemplateManager.get_template; rag.search may raise
Search ==
    /\ \E use_graph \in BOOLEAN,
          template_name \in {"None", "chinese", "detailed", "missing"},
          failed \in BOOLEAN :
          LET rag == IF use_graph THEN "vector_cypher_rag" ELSE "vector_rag"
              templates == {"default", "chinese", "english", "detailed"}
              get_template(name) ==
                  IF name \notin templates THEN "default" ELSE name
          IN /\ prompt_template' =
                    IF template_name # "None"
                    THEN [prompt_template EXCEPT
                             ![rag] = get_template(template_name)]
                    ELSE prompt_template
             /\ call' = [op |-> "search", use_graph |-> use_graph,
                         template_name |-> template_name,
                         prompt |-> prompt_template'[rag],
                         raised |-> failed]
    /\ UNCHANGED <<driver, default_index_manager, default_kg_builder,
                   constructed>>
    /\ UNCHANGED <<hex_color, factor, adjusted, step, events, inputs>>
    /\ UNCHANGED runVars

NextServices ==
    \/ Connect \/ Close \/ ExecuteQuery
    \/ GetIndexManager \/ GetKgBuilder \/ CreateAllIndexes
    \/ Search

\* main.py has constructed the connector ("self.connect()") and the
\* GraphRAGSystem ("get_template('chinese')"); no manager is shared yet
InitServices ==
    /\ RunIdle
    /\ driver = "open"
    /\ default_index_manager = "None"
    /\ default_kg_builder = "None"
    /\ constructed = [index_manager |-> 0, kg_builder |-> 0]
    /\ prompt_template = [vector_rag |-> "chinese",
                          vector_cypher_rag |-> "chinese"]
    /\ call = [op |-> "none"]
    /\ hex_color = <<>>
    /\ factor = 0
    /\ adjusted = <<>>
    /\ step = "idle"
    /\ events = <<>>
    /\ inputs = <<>>

SpecServices == InitServices /\ [][NextServices]_vars

\* the steps of the last create_all_indexes that ran the command cmd
StepsOf(cmd) == {i \in DOMAIN call.steps : call.steps[i].cmd = cmd}

\* C26: create_all_indexes in graphrag mode runs no external command when
\* root_dir is missing and raises; otherwise the workspace initialization
\* runs strictly before the index build, the index build never runs when
\* the initialization failed, and the call raises whenever a step failed;
\* in neo4j mode the vector index is created before the full-text index
\* and the full-text index is not attempted if the vector index failed.
C26_IndexStepsInOrder ==
    call.op = "create_all_indexes" =>
        /\ (call.mode = "graphrag" /\ call.root_dir \in {"None", ""})
              => call.steps = <<>> /\ call.raised
        /\ \A i \in StepsOf("graphrag index") :
              \E j \in StepsOf("graphrag init") : j < i /\ call.steps[j].ok
        /\ \A i \in StepsOf("fulltext index") :
              \E j \in StepsOf("vector index") : j < i /\ call.steps[j].ok
        /\ (\E i \in DOMAIN call.steps : ~call.steps[i].ok) => call.raised
        /\ \A i \in DOMAIN call.steps :
              ~call.steps[i].ok => i = Len(call.steps)
        /\ call.mode = "graphrag" =>
              StepsOf("vector index") \cup StepsOf("fulltext index") = {}
        /\ call.mode = "neo4j" =>
              /\ StepsOf("graphrag init") \cup StepsOf("graphrag index") = {}
              /\ StepsOf("vector index") # {}
        /\ ~call.raised =>
              \/ call.mode = "graphrag" /\ StepsOf("graphrag index") # {}
              \/ call.mode = "neo4j" /\ StepsOf("fulltext index") # {}

C26_Witness ==
    /\ call.op = "create_all_indexes"
    /\ call.mode = "graphrag"
    /\ call.raised
    /\ Len(call.steps) = 2
    /\ call.steps[2] = [cmd |-> "graphrag init", ok |-> FALSE]

\* C27: the manager returned by get_index_manager(mode) operates in the
\* mode passed to that call, the builder returned by get_kg_builder(from_pdf)
\* has the from_pdf passed to that call, and at most one default instance of
\* each is ever constructed.
C27_ReturnedAsRequested ==
    /\ call.op = "get_index_manager" => call.returned = call.mode
    /\ call.op = "get_kg_builder" => call.returned = call.from_pdf
    /\ constructed.index_manager <= 1
    /\ constructed.kg_builder <= 1

\* C28: execute_query never sends a query through a driver that has been
\* closed; when the connection is not open it reconnects first.
C28_NeverThroughClosedDriver ==
    call.op = "execute_query" => call.through # "closed"

\* C29: a search made without template_name uses the 'chinese' prompt
\* template chosen at construction, whatever earlier searches passed.
C29_TemplateOnlyForThatCall ==
    (call.op = "search" /\ call.template_name = "None")
        => call.prompt = "chinese"

\* the run has written the page with its stats cards and its legend
Enhanced ==
    /\ pc = "done"
    /\ result = OutputPath
    /\ artifact.written
    /\ artifact.content.stats # <<>>

\* C30: in the page of create_interactive_graph every node's primary label
\* has a color in color_map, each legend count is the number of nodes with
\* that primary label, and the legend counts sum to the node total of the
\* stats card.
C30_LegendCountsPrimaryLabels ==
    Enhanced =>
        LET legend == artifact.content.legend
            nodes == artifact.content.network.nodes
        IN /\ \A i \in DOMAIN nodes :
                 \E j \in DOMAIN scene.color_map :
                    scene.color_map[j].key = nodes[i].primary_label
           /\ \A k \in DOMAIN legend :
                 legend[k].count =
                     Cardinality({i \in DOMAIN nodes :
                                     nodes[i].primary_label = legend[k].label})
           /\ SumOver([k \in DOMAIN legend |-> legend[k].count],
                      1, Len(legend)) = artifact.content.stats.nodes
================================================================================
